---- MODULE Spec2Model ----
(***************************************************************************)
(* Model of the docling ingestion pipeline (crates/docling):               *)
(*   - AsyncSpider::crawl   the dispatcher task and its fetch workers      *)
(*   - Crawler::process_entry  the crawl stage: spider, page forwarding,   *)
(*                             the page-store task                         *)
(*   - run_entry            the retry orchestrator over the entry registry *)
(*   - fetch_url, extract_links, download_images, the page channels        *)
(*   - Converter::convert_directory, Processor::process_entry and the      *)
(*     functions they are made of                                          *)
(***************************************************************************)
EXTENDS Integers, Sequences, FiniteSets, TLC

\* ------------------------------------------------------------------ bounds

\* Largest configured max_concurrent_requests that is explored (0 included).
MaxConcurrent == 3
\* Largest configured crawl depth (config.default_deep) that is explored.
MaxDepth == 2
\* Largest number of href references a fetched page body holds.
MaxLinks == 2
\* Largest configured retry_count that is explored (0 included).
MaxRetry == 2
\* Number of run_entry invocations that are explored.
MaxRuns == 2
\* Last instant of the clock (Utc::now() at a resolution of one second).
MaxClock == 3
\* Longest prefix of the default retry_delay list that is explored.
MaxDelays == 1
\* Largest number of pages one crawl produces in the page-channel model.
MaxPages == 101
\* Largest number of img references on a page.
MaxImages == 2
\* Number of runs of download_images for the same page.
MaxMediaRuns == 2
\* Largest number of fragments a Markdown line is put together from.
MaxFragments == 3
\* Largest number of lines of a per-page Markdown file.
MaxFileLines == 2
\* Number of runs of the combining step over one directory.
MaxCombineRuns == 2
\* Largest number of tokens of the file a combined document is made from.
MaxDocLen == 5
\* Largest number of pieces of a line of markup.
MaxPieces == 2
\* Largest number of lines of markup of a page.
MaxMarkupLines == 2
\* Number of pages of the crawl stage in the model of the two semaphores.
MaxPoolPages == 4
\* Largest number of workers in the model of the three mutexes.
MaxLockWorkers == 3
\* Largest number of items ever pushed on the queue in that model.
MaxLockItems == 3
\* Largest number of anchors and text pieces of a body given to the simple converter.
MaxAnchors == 2
\* Largest number of iterations of one loop of the simple converter that are followed.
MaxLoopIters == 6
\* Largest number of characters of the path of a stored page's URL.
MaxPathLen == 3
\* Largest number of pages delivered to the page store.
MaxStored == 2

\* --------------------------------------------------------- program constants

\* const DEFAULT_MAX_CONCURRENT_REQUESTS: u32 = 1
DefaultMaxConcurrentRequests == 1
\* broadcast::channel(100)
PageChannelCapacity == 100
\* mpsc::channel::<(Url, String)>(100)
DownloadChannelCapacity == 100
\* 60 // Default to 60 seconds if no specific delay is configured
DefaultDelay == 60
\* DEFAULT_CRAWL_DEPTH
DefaultCrawlDepth == 1

\* ------------------------------------------------------------- URL universe

Url(h, p) == [host |-> h, path |-> p]

\* The seed of the crawl run (entry.url) and the pages the web may link to.
Seed == Url("example.com", "/")

Urls ==
    { Seed, Url("example.com", "/a"), Url("example.com", "/c"), Url("other.com", "/b") }

\* Url::parse(link).host()
Host(u) == u.host

\* The bodies a fetch can return, as the list of links extract_links finds in
\* document order (duplicates allowed).
LinkLists ==
    UNION { [1..n -> Urls] : n \in 0..MaxLinks }

NoItem == [url |-> Seed, depth |-> -1]

\* ------------------------------------------------------------------- state

VARIABLES
    cfgMaxConcurrent,   \* config.max_concurrent_requests
    maxDepth,           \* AsyncSpider.max_depth
    queue,              \* AsyncSpider.queue: VecDeque<(String, usize)>
    visited,            \* AsyncSpider.visited
    linkSet,            \* AsyncSpider.links
    permits,            \* semaphore.available_permits()
    dPc,                \* position of the dispatcher task
    dItem,              \* next_item held by the dispatcher
    dActive,            \* active_count read by the dispatcher
    workers,            \* the spawned worker tasks, in spawn order
    doneSignalled,      \* done_tx.send(()) happened
    crawlPc,            \* position of AsyncSpider::crawl itself
    bcast,              \* pages sent on page_tx and not yet received
    fetchCount,         \* history: calls of fetch_url per URL
    fetched,            \* history: (url, depth) of every fetch_url call
    enqLog,             \* history: (link, depth, depth of the page it was found on)
    reSeen,             \* history: links skipped as already visited or queued
    dropped,            \* history: links rejected by the same-domain check
    pePc,               \* position of Crawler::process_entry
    dlChan,             \* the (dl_tx, dl_rx) channel: pages sent and not yet received
    dlPc,               \* position of the page-store task (dl_task)
    crawledUrls,        \* crawled_urls of the page-store task
    cfgRetry,           \* config.retry_count
    cfgDelay,           \* config.retry_delay
    sleeps,             \* history: the backoff delays slept by this invocation
    registry,           \* entries.toml, as load_entries reads it
    mem,                \* run_entry's entries, loaded once
    runPc,              \* position of run_entry
    runName,            \* the name run_entry was called with
    retryCount,         \* run_entry's retry_count
    procErr,            \* the error e of the failed attempt
    lastError,          \* run_entry's last_error
    ret,                \* what the last run_entry returned
    now,                \* the clock
    errorFiles,         \* names of the files in ERRORS, by their timestamp
    attempts,           \* history: outcome of every attempt cycle of this invocation
    successes,          \* history: successful completions of run_entry per entry
    runsStarted,        \* history: invocations of run_entry
    fxReq,              \* fetch_url: the request and what the server does with it
    fxRes,              \* fetch_url: the Result it returned
    fxPc,               \* position of the worker that called fetch_url
    fxPage,             \* the Page the worker sent on page_tx, if any
    fxLinks,            \* the links the worker enqueued
    fxSaved,            \* the body the page store wrote, if any
    ppSent,             \* pages sent on page_tx by the workers
    ppRecv,             \* pages pages_rx has yielded or skipped
    ppForwarded,        \* pages sent on dl_tx
    ppStored,           \* pages the page store has received and written
    ppClosed,           \* every page_tx is dropped
    ppPc,               \* position of process_entry's forwarding loop
    mdPage,             \* download_images: the img src references of the page
    mdServer,           \* what the server answers for every media URL
    mdDisk,             \* the files in the media directory
    mdRequests,         \* the requests issued by the latest run
    mdRuns,             \* completed runs of download_images for the page
    plLine,             \* process_links: the input line
    plBase,             \* process_links: base_domain
    plOut,              \* process_links: the returned line
    plPc,               \* process_links called or not
    cb,                 \* Processor::process_entry: files (the .md files by stem),
                        \* listings (the order read_dir gave, per run), outs (what
                        \* every run wrote)
    fc,                 \* final_cleanup: doc (its argument), out (what it returned), pc
    cv,                 \* convert_directory: method (config.transform_md_using),
                        \* features (of the build), html (the .html files by stem),
                        \* todo (files still to convert), md (files written), failed
                        \* (files whose conversion failed, with the error logged), pc
    robots,             \* respect: AsyncSpider::respect_robots; disallow: the URLs
                        \* the site's robots.txt disallows for the user agent
    el,                 \* extract_links: html (the markup by line), base (the page's
                        \* URL), out (the returned links), pc
    mp,                 \* the two semaphores of a crawl stage: cfg
                        \* (max_concurrent_requests), pagePermits, mediaPermits, left
                        \* (pages still to fetch), fetching (workers in flight), chan
                        \* (pages on dl_tx), stored (HTML files written), tasks (the
                        \* media task of every stored page)
    lk,                 \* the three mutexes of a crawl: owner (of every mutex), pc
                        \* (position of the dispatcher and of every worker), items (in
                        \* the queue), made (items pushed so far), spawned (workers)
    sm,                 \* simple_html_to_markdown: html (its argument), result, pc
                        \* (the loop it is in), iter (iterations of that loop so far)
    ps                  \* the html directory of a crawl run: delivered (the URLs of
                        \* the pages dl_task received), files (the URL whose body every
                        \* file holds, by file name)

crawlVars ==
    << cfgMaxConcurrent, maxDepth, robots, queue, visited, linkSet, permits, dPc, dItem,
       dActive, workers, doneSignalled, crawlPc, bcast >>

histVars == << fetchCount, fetched, enqLog, reSeen, dropped >>

stageVars == << pePc, dlChan, dlPc, crawledUrls >>

runVars ==
    << cfgRetry, cfgDelay, sleeps, registry, mem, runPc, runName, retryCount, procErr,
       lastError, ret, now, errorFiles, attempts, successes, runsStarted >>

fetchVars == << fxReq, fxRes, fxPc, fxPage, fxLinks, fxSaved >>

pipeVars == << ppSent, ppRecv, ppForwarded, ppStored, ppClosed, ppPc >>

mediaVars == << mdPage, mdServer, mdDisk, mdRequests, mdRuns >>

linkVars == << plLine, plBase, plOut, plPc >>

docVars == << cb, fc, cv, el >>

moreVars == << mp, lk, sm, ps >>

pureVars == << fetchVars, pipeVars, mediaVars, linkVars, docVars, moreVars >>

vars == << crawlVars, histVars, stageVars, runVars, pureVars >>

\* ----------------------------------------------------------- AsyncSpider

Max(a, b) == IF a >= b THEN a ELSE b

\* let max_concurrent = config.max_concurrent_requests.max(1)
SemaphorePermits(cfg) == Max(cfg, 1)

\* Workers that hold a fetch slot (an OwnedSemaphorePermit).
InFlight == { w \in DOMAIN workers : workers[w].pc # "done" }

\* Arc::strong_count(&semaphore): the spider's own Arc, the dispatcher's clone,
\* and the clone inside every outstanding OwnedSemaphorePermit.
StrongCount == 2 + Cardinality(InFlight)

ExtractAllowed_Inclusive(depth, max) == depth <= max

\* if depth < max_depth
ExtractAllowed(depth, max) == depth < max

AlreadySeen_VisitedOnly(link, vis, lset) == link \in vis

\* if visited_urls.contains(&link) || link_set.contains(&link)
AlreadySeen(link, vis, lset) == link \in vis \/ link \in lset

SameDomain_Any(link, base) == TRUE

\* if parsed_link.host() == base_url.host()
SameDomain(link, base) == Host(link) = Host(base)

\* The loop over new_links, run while links, queue and visited are locked:
\* the pair (link set, queue) after the first i links were handled.
RECURSIVE EnqueueLinks(_, _, _, _, _)
EnqueueLinks(ls, depth, lset, q, vis) ==
    IF ls = << >> THEN << lset, q >>
    ELSE LET link == Head(ls)
         IN  IF AlreadySeen(link, vis, lset) \/ ~SameDomain(link, Seed)
             THEN EnqueueLinks(Tail(ls), depth, lset, q, vis)
             ELSE EnqueueLinks(Tail(ls), depth, lset \cup {link},
                               Append(q, [url |-> link, depth |-> depth + 1]), vis)

\* The links of ls that the loop skips because they were seen before.
SkippedAsSeen(ls, lset, vis) ==
    { ls[i] : i \in { k \in DOMAIN ls :
                        \/ ls[k] \in vis \cup lset
                        \/ \E j \in 1..(k - 1) :
                              ls[j] = ls[k] /\ Host(ls[j]) = Host(Seed) } }

\* The links of ls that the loop reaches the host comparison with and rejects.
RejectedByDomain(ls, lset, vis) ==
    { ls[i] : i \in { k \in DOMAIN ls :
                        ls[k] \notin vis \cup lset /\ Host(ls[k]) # Host(Seed) } }

\* UrlEntry::new: a freshly registered entry. Option<DateTime> is the empty
\* set (None) or a singleton (Some).
NewEntry ==
    [url |-> "valid", status |-> "Enabled", version |-> 1, last_try |-> {},
     last_download |-> {}, last_fail |-> {}, crawl_depth |-> DefaultCrawlDepth]

\* What entry.url can be: a URL with a host ("valid"), a URL that parses and has
\* no host, as mailto:docs@example.com ("nohost"), or a string Url::parse
\* rejects ("unparsable", only by an edit of entries.toml: add_url refuses it).
UrlKinds == { "valid", "nohost", "unparsable" }

\* vec![10, 40, 200]
DefaultRetryDelay == << 10, 40, 200 >>

\* The retry_delay lists that are explored: prefixes of the default list, and
\* a list that asks for no delay.
RetryDelayLists ==
    { SubSeq(DefaultRetryDelay, 1, n) :
          n \in { m \in 0..MaxDelays : m <= Len(DefaultRetryDelay) } } \cup { << 0 >> }

\* The names of the registered entries.
Names == { "docs" }

NoReturn == [kind |-> "none", msg |-> "none", retries |-> 0]

\* No call of fetch_url, no crawl stage, no download_images and no
\* process_links under examination.
FetchIdle ==
    /\ fxReq = "none"
    /\ fxRes = "none"
    /\ fxPc = "idle"
    /\ fxPage = "none"
    /\ fxLinks = << >>
    /\ fxSaved = "none"

PipeIdle ==
    /\ ppSent = 0
    /\ ppRecv = 0
    /\ ppForwarded = 0
    /\ ppStored = 0
    /\ ppClosed = FALSE
    /\ ppPc = "idle"

MediaIdle ==
    /\ mdPage = << >>
    /\ mdServer = "none"
    /\ mdDisk = {}
    /\ mdRequests = << >>
    /\ mdRuns = 0

LinkIdle ==
    /\ plLine = << >>
    /\ plBase = "none"
    /\ plOut = << >>
    /\ plPc = "idle"

CombineIdle == cb = [files |-> << >>, listings |-> << >>, outs |-> << >>]

CleanupIdle == fc = [doc |-> << >>, out |-> << >>, pc |-> "idle"]

ConvertIdle ==
    cv = [method |-> "Htmd", features |-> {}, html |-> << >>, todo |-> << >>,
          md |-> {}, failed |-> {}, pc |-> "idle"]

ExtractIdle == el = [html |-> << >>, base |-> Seed, out |-> << >>, pc |-> "idle"]

DocIdle == CombineIdle /\ CleanupIdle /\ ConvertIdle /\ ExtractIdle

PoolIdle ==
    mp = [cfg |-> 0, pagePermits |-> 0, mediaPermits |-> 0, left |-> 0, fetching |-> 0,
          chan |-> 0, stored |-> 0, tasks |-> << >>]

LocksIdle ==
    lk = [owner |-> << >>, pc |-> << >>, items |-> 0, made |-> 0, spawned |-> 0]

SimpleIdle == sm = [html |-> << >>, result |-> << >>, pc |-> "idle", iter |-> 0]

StoreIdle == ps = [delivered |-> {}, files |-> << >>]

MoreIdle == PoolIdle /\ LocksIdle /\ SimpleIdle /\ StoreIdle

PureIdle == FetchIdle /\ PipeIdle /\ MediaIdle /\ LinkIdle /\ DocIdle /\ MoreIdle

\* AsyncSpider::new: the seed queued at depth 0, nothing visited or discovered,
\* every permit free.
SpiderNew ==
    /\ queue = << [url |-> Seed, depth |-> 0] >>
    /\ visited = {}
    /\ linkSet = {}
    /\ permits = SemaphorePermits(cfgMaxConcurrent)
    /\ dItem = NoItem
    /\ dActive = 0
    /\ workers = << >>
    /\ doneSignalled = FALSE
    /\ bcast = << >>
    /\ fetchCount = [u \in Urls |-> 0]
    /\ fetched = {}
    /\ enqLog = {}
    /\ reSeen = {}
    /\ dropped = {}

\* No page-store task, no process_entry in progress.
StageIdle ==
    /\ pePc = "idle"
    /\ dlChan = << >>
    /\ dlPc = "unspawned"
    /\ crawledUrls = {}

\* The registry after add_url of every name; no run_entry in progress.
RunIdleEntry(e) ==
    /\ registry = [n \in Names |-> e]
    /\ mem = registry
    /\ sleeps = << >>
    /\ runPc = "idle"
    /\ runName = "docs"
    /\ retryCount = 0
    /\ procErr = "none"
    /\ lastError = "none"
    /\ ret = NoReturn
    /\ now = 1
    /\ errorFiles = {}
    /\ attempts = << >>
    /\ successes = [n \in Names |-> 0]
    /\ runsStarted = 0

RunIdleWith(u) == RunIdleEntry([NewEntry EXCEPT !.url = u])

RunIdle == RunIdleWith("valid")

\* DoclingConfig::default(): respect_robots_txt is true; a site without
\* robots.txt
RobotsDefault == [respect |-> TRUE, disallow |-> {}]

\* The spider alone, its dispatcher task spawned by crawl().
InitCrawl ==
    /\ cfgMaxConcurrent \in 0..MaxConcurrent
    /\ maxDepth \in 0..MaxDepth
    /\ robots = RobotsDefault
    /\ SpiderNew
    /\ dPc = "pop"
    /\ crawlPc = "running"
    /\ StageIdle
    /\ cfgRetry = 0
    /\ cfgDelay = DefaultRetryDelay
    /\ RunIdle
    /\ PureIdle

\* let next_item = { queue.lock().pop_front() }
DPop ==
    /\ dPc = "pop"
    /\ IF queue # << >>
       THEN /\ dItem' = Head(queue)
            /\ queue' = Tail(queue)
            /\ dPc' = "check"
       ELSE /\ dPc' = "count"
            /\ UNCHANGED << dItem, queue >>
    /\ UNCHANGED << pureVars, robots, cfgMaxConcurrent, maxDepth, visited, linkSet, permits,
                    dActive, workers, doneSignalled, crawlPc, bcast, histVars, stageVars,
                    runVars >>

\* Skip if already visited
DCheckVisited ==
    /\ dPc = "check"
    /\ IF dItem.url \in visited
       THEN /\ dPc' = "pop"
            /\ dItem' = NoItem
       ELSE /\ dPc' = "acquire"
            /\ UNCHANGED dItem
    /\ UNCHANGED << pureVars, robots, cfgMaxConcurrent, maxDepth, queue, visited, linkSet, permits,
                    dActive, workers, doneSignalled, crawlPc, bcast, histVars, stageVars,
                    runVars >>

DAcquireSpawn_NoWait ==
    /\ dPc = "acquire"
    /\ permits' = IF permits > 0 THEN permits - 1 ELSE 0
    /\ workers' = Append(workers, [url |-> dItem.url, depth |-> dItem.depth, pc |-> "mark"])
    /\ dItem' = NoItem
    /\ dPc' = "pop"
    /\ UNCHANGED << pureVars, robots, cfgMaxConcurrent, maxDepth, queue, visited, linkSet, dActive,
                    doneSignalled, crawlPc, bcast, histVars, stageVars, runVars >>

\* semaphore.acquire_owned().await, then tokio::spawn of the worker
DAcquireSpawn ==
    /\ dPc = "acquire"
    /\ permits > 0
    /\ permits' = permits - 1
    /\ workers' = Append(workers, [url |-> dItem.url, depth |-> dItem.depth, pc |-> "mark"])
    /\ dItem' = NoItem
    /\ dPc' = "pop"
    /\ UNCHANGED << pureVars, robots, cfgMaxConcurrent, maxDepth, queue, visited, linkSet, dActive,
                    doneSignalled, crawlPc, bcast, histVars, stageVars, runVars >>

\* let active_count = Arc::strong_count(&semaphore) - 1
DCountActive ==
    /\ dPc = "count"
    /\ dActive' = StrongCount - 1
    /\ dPc' = "compare"
    /\ UNCHANGED << pureVars, robots, cfgMaxConcurrent, maxDepth, queue, visited, linkSet, permits,
                    dItem, workers, doneSignalled, crawlPc, bcast, histVars, stageVars,
                    runVars >>

\* if active_count == permits_available { done_tx.send(()); break }
\* else sleep 100 ms and loop
DCompare ==
    /\ dPc = "compare"
    /\ IF dActive = permits
       THEN /\ doneSignalled' = TRUE
            /\ dPc' = "done"
       ELSE /\ dPc' = "pop"
            /\ UNCHANGED doneSignalled
    /\ UNCHANGED << pureVars, robots, cfgMaxConcurrent, maxDepth, queue, visited, linkSet, permits,
                    dItem, dActive, workers, crawlPc, bcast, histVars, stageVars,
                    runVars >>

\* Mark as visited
WMarkVisited(w) ==
    /\ workers[w].pc = "mark"
    /\ visited' = visited \cup {workers[w].url}
    /\ workers' = [workers EXCEPT ![w].pc = "fetch"]
    /\ UNCHANGED << pureVars, robots, cfgMaxConcurrent, maxDepth, queue, linkSet, permits, dPc,
                    dItem, dActive, doneSignalled, crawlPc, bcast, histVars, stageVars,
                    runVars >>

\* fetch_url returns Ok((parsed_url, body)); the links of the body are
\* enqueued under the three locks when depth < max_depth
WFetchOk(w, ls) ==
    /\ workers[w].pc = "fetch"
    /\ LET d == workers[w].depth
           r == EnqueueLinks(ls, d, linkSet, queue, visited)
       IN  /\ fetchCount' = [fetchCount EXCEPT ![workers[w].url] = @ + 1]
           /\ fetched' = fetched \cup { << workers[w].url, d >> }
           /\ IF ExtractAllowed(d, maxDepth)
              THEN /\ linkSet' = r[1]
                   /\ queue' = r[2]
                   /\ enqLog' = enqLog \cup
                        { << r[2][i].url, r[2][i].depth, d >> :
                            i \in (Len(queue) + 1)..Len(r[2]) }
                   /\ reSeen' = reSeen \cup SkippedAsSeen(ls, linkSet, visited)
                   /\ dropped' = dropped \cup RejectedByDomain(ls, linkSet, visited)
              ELSE UNCHANGED << linkSet, queue, enqLog, reSeen, dropped >>
    /\ workers' = [workers EXCEPT ![w].pc = "send"]
    /\ UNCHANGED << pureVars, robots, cfgMaxConcurrent, maxDepth, visited, permits, dPc, dItem,
                    dActive, doneSignalled, crawlPc, bcast, stageVars, runVars >>

WFetchErr_EnqueuesLinks(w) ==
    /\ workers[w].pc = "fetch"
    /\ fetchCount' = [fetchCount EXCEPT ![workers[w].url] = @ + 1]
    /\ fetched' = fetched \cup { << workers[w].url, workers[w].depth >> }
    /\ queue' = Append(queue, [url |-> Url("example.com", "/a"),
                               depth |-> workers[w].depth + 1])
    /\ workers' = [workers EXCEPT ![w].pc = "release"]
    /\ UNCHANGED << pureVars, robots, cfgMaxConcurrent, maxDepth, visited, linkSet, permits,
                    dPc, dItem, dActive, doneSignalled, crawlPc, bcast, enqLog, reSeen,
                    dropped, stageVars, runVars >>

WFetchErr_KeepsSlot(w) ==
    /\ workers[w].pc = "fetch"
    /\ fetchCount' = [fetchCount EXCEPT ![workers[w].url] = @ + 1]
    /\ fetched' = fetched \cup { << workers[w].url, workers[w].depth >> }
    /\ workers' = [workers EXCEPT ![w].pc = "done"]
    /\ UNCHANGED << pureVars, robots, cfgMaxConcurrent, maxDepth, queue, visited, linkSet, permits,
                    dPc, dItem, dActive, doneSignalled, crawlPc, bcast, enqLog, reSeen,
                    dropped, stageVars, runVars >>

\* fetch_url returns Err: warn!, nothing is enqueued, no page is sent
WFetchErr(w) ==
    /\ workers[w].pc = "fetch"
    /\ fetchCount' = [fetchCount EXCEPT ![workers[w].url] = @ + 1]
    /\ fetched' = fetched \cup { << workers[w].url, workers[w].depth >> }
    /\ workers' = [workers EXCEPT ![w].pc = "release"]
    /\ UNCHANGED << pureVars, robots, cfgMaxConcurrent, maxDepth, queue, visited, linkSet, permits,
                    dPc, dItem, dActive, doneSignalled, crawlPc, bcast, enqLog, reSeen,
                    dropped, stageVars, runVars >>

\* let _ = page_tx.send(page)
WSendPage(w) ==
    /\ workers[w].pc = "send"
    /\ bcast' = Append(bcast, workers[w].url)
    /\ workers' = [workers EXCEPT ![w].pc = "release"]
    /\ UNCHANGED << pureVars, robots, cfgMaxConcurrent, maxDepth, queue, visited, linkSet, permits,
                    dPc, dItem, dActive, doneSignalled, crawlPc, histVars, stageVars,
                    runVars >>

\* sleep(delay) on the success path, then drop(permit)
WRelease(w) ==
    /\ workers[w].pc = "release"
    /\ permits' = permits + 1
    /\ workers' = [workers EXCEPT ![w].pc = "done"]
    /\ UNCHANGED << pureVars, robots, cfgMaxConcurrent, maxDepth, queue, visited, linkSet, dPc,
                    dItem, dActive, doneSignalled, crawlPc, bcast, histVars, stageVars,
                    runVars >>

\* let _ = done_rx.recv().await; Ok(())
CrawlReturn ==
    /\ crawlPc = "running"
    /\ dPc = "done"
    /\ crawlPc' = "returned"
    /\ UNCHANGED << pureVars, robots, cfgMaxConcurrent, maxDepth, queue, visited, linkSet, permits,
                    dPc, dItem, dActive, workers, doneSignalled, bcast, histVars,
                    stageVars, runVars >>

\* The bodies that matter to a worker at the given depth: at the maximum depth
\* extract_links is not called, so the body's links are never looked at.
Bodies(depth) == IF ExtractAllowed(depth, maxDepth) THEN LinkLists ELSE { << >> }

Dispatcher == DPop \/ DCheckVisited \/ DAcquireSpawn \/ DCountActive \/ DCompare

Worker(w) ==
    \/ WMarkVisited(w)
    \/ \E ls \in Bodies(workers[w].depth) : WFetchOk(w, ls)
    \/ WFetchErr(w)
    \/ WSendPage(w)
    \/ WRelease(w)

NextCrawl ==
    \/ Dispatcher
    \/ \E w \in DOMAIN workers : Worker(w)
    \/ CrawlReturn

SpecCrawl == InitCrawl /\ [][NextCrawl]_vars

\* tokio runs every task that is ready, and the dispatcher's 100 ms sleep ends:
\* no task that can take a step is postponed forever.
FairCrawl ==
    /\ SpecCrawl
    /\ WF_vars(Dispatcher)
    /\ WF_vars(\E w \in DOMAIN workers : Worker(w))
    /\ WF_vars(CrawlReturn)

\* The crawl of a registry entry by Crawler::process_entry: the spider is made
\* by AsyncSpider::new(&entry.url, &self.config) from the configuration
\* (max_depth from default_deep, respect_robots from respect_robots_txt); the
\* entry has its own crawl_depth and the site its robots.txt.
InitEntryCrawl ==
    /\ cfgMaxConcurrent = DefaultMaxConcurrentRequests
    /\ maxDepth \in 0..MaxDepth
    /\ robots \in [respect : BOOLEAN, disallow : { {} } \cup { { u } : u \in Urls }]
    /\ SpiderNew
    /\ dPc = "pop"
    /\ crawlPc = "running"
    /\ StageIdle
    /\ cfgRetry = 0
    /\ cfgDelay = DefaultRetryDelay
    /\ \E d \in 0..MaxDepth : RunIdleEntry([NewEntry EXCEPT !.crawl_depth = d])
    /\ PureIdle

SpecEntryCrawl == InitEntryCrawl /\ [][NextCrawl]_vars

\* ------------------------------------------------- Crawler::process_entry

\* entry.last_try = Some(Utc::now())
MarkTried(e, t) == [e EXCEPT !.last_try = {t}]

\* entry.last_download = Some(Utc::now()); entry.version += 1
MarkDownloaded(e, t) == [e EXCEPT !.last_download = {t}, !.version = @ + 1]

\* Every broadcast::Sender<Page> is dropped: the spider's own (spider_task has
\* ended), the dispatcher task's clone and the clone of every worker task.
BroadcastClosed ==
    /\ crawlPc = "returned"
    /\ dPc = "done"
    /\ InFlight = {}

\* dl_tx lives in process_entry's frame until process_entry returns.
DlSenderDropped == pePc \in { "ok", "err" }

\* process_entry up to the spawn of spider_task and dl_task: last_try, the
\* disabled check, create_dir_all (dirOk), AsyncSpider::new (urlOk).
PEStartWith(dirOk, urlOk) ==
    /\ pePc = "start"
    /\ mem' = [mem EXCEPT ![runName] = MarkTried(@, now)]
    /\ IF mem[runName].status = "Disabled"
       THEN /\ pePc' = "ok"
            /\ UNCHANGED << dPc, crawlPc, dlPc >>
       ELSE IF ~dirOk \/ ~urlOk
            THEN /\ pePc' = "err"
                 /\ UNCHANGED << dPc, crawlPc, dlPc >>
            ELSE /\ pePc' = "forward"
                 /\ dPc' = "pop"
                 /\ crawlPc' = "running"
                 /\ dlPc' = "recv"
    /\ UNCHANGED << pureVars, robots, cfgMaxConcurrent, maxDepth, queue, visited, linkSet, permits,
                    dItem, dActive, workers, doneSignalled, bcast, histVars, dlChan,
                    crawledUrls, cfgRetry, cfgDelay, sleeps, registry, runPc, runName,
                    retryCount, procErr, lastError, ret, now, errorFiles, attempts,
                    successes, runsStarted >>

PEStart == \E dirOk \in BOOLEAN, urlOk \in BOOLEAN : PEStartWith(dirOk, urlOk)

\* The rest of process_entry: the loop that forwards pages from pages_rx to
\* dl_tx (it ends on Closed and on Lagged), then dl_task.await and the update
\* of the entry.
PEStep ==
    /\ pePc \in { "forward", "await_dl" }
    /\ IF pePc = "forward"
       THEN /\ IF Len(bcast) > PageChannelCapacity
               THEN /\ pePc' = "await_dl"
                    /\ UNCHANGED << bcast, dlChan >>
               ELSE IF bcast # << >>
                    THEN /\ Len(dlChan) < DownloadChannelCapacity
                         /\ bcast' = Tail(bcast)
                         /\ dlChan' = Append(dlChan, Head(bcast))
                         /\ UNCHANGED pePc
                    ELSE /\ BroadcastClosed
                         /\ pePc' = "await_dl"
                         /\ UNCHANGED << bcast, dlChan >>
            /\ UNCHANGED mem
       ELSE /\ dlPc = "finished"
            /\ mem' = [mem EXCEPT ![runName] = MarkDownloaded(@, now)]
            /\ pePc' = "ok"
            /\ UNCHANGED << bcast, dlChan >>
    /\ UNCHANGED << pureVars, robots, cfgMaxConcurrent, maxDepth, queue, visited, linkSet, permits,
                    dPc, dItem, dActive, workers, doneSignalled, crawlPc, histVars, dlPc,
                    crawledUrls, cfgRetry, cfgDelay, sleeps, registry, runPc, runName,
                    retryCount, procErr, lastError, ret, now, errorFiles, attempts,
                    successes, runsStarted >>

\* dl_task: while let Some((url, body)) = dl_rx.recv().await { File::create,
\* write_all (fileOk), crawled_urls.insert }; recv yields None only when the
\* channel is empty and dl_tx is dropped.
DlStepWith(fileOk) ==
    /\ dlPc = "recv"
    /\ IF dlChan # << >>
       THEN /\ dlChan' = Tail(dlChan)
            /\ crawledUrls' = IF fileOk THEN crawledUrls \cup { Head(dlChan) }
                              ELSE crawledUrls
            /\ UNCHANGED dlPc
       ELSE /\ DlSenderDropped
            /\ dlPc' = "finished"
            /\ UNCHANGED << dlChan, crawledUrls >>
    /\ UNCHANGED << pureVars, crawlVars, histVars, pePc, runVars >>

DlStep == \E fileOk \in BOOLEAN : DlStepWith(fileOk)

\* process_entry called by an attempt of run_entry with the default
\* max_concurrent_requests: the entry was loaded and is not Disabled.
InitStage ==
    /\ cfgMaxConcurrent = DefaultMaxConcurrentRequests
    /\ maxDepth \in 0..MaxDepth
    /\ robots = RobotsDefault
    /\ SpiderNew
    /\ dPc = "unspawned"
    /\ crawlPc = "unspawned"
    /\ pePc = "start"
    /\ dlChan = << >>
    /\ dlPc = "unspawned"
    /\ crawledUrls = {}
    /\ cfgRetry \in 1..MaxRetry
    /\ cfgDelay = DefaultRetryDelay
    /\ sleeps = << >>
    /\ \E st \in { "Enabled", "Failed" } :
          /\ registry = [n \in Names |-> IF n = "docs" THEN [NewEntry EXCEPT !.status = st]
                                         ELSE NewEntry]
          /\ mem = registry
    /\ runPc = "crawling"
    /\ runName = "docs"
    /\ retryCount = 0
    /\ procErr = "none"
    /\ lastError = "none"
    /\ ret = NoReturn
    /\ now = 1
    /\ errorFiles = {}
    /\ attempts = << >>
    /\ successes = [n \in Names |-> 0]
    /\ runsStarted = 1
    /\ PureIdle

NextStage ==
    \/ PEStart
    \/ Dispatcher
    \/ \E w \in DOMAIN workers : Worker(w)
    \/ CrawlReturn
    \/ PEStep
    \/ DlStep

\* Every task that can take a step eventually takes one (tokio's scheduler);
\* every network request and file operation completes.
FairStage ==
    /\ InitStage
    /\ [][NextStage]_vars
    /\ WF_vars(PEStart)
    /\ WF_vars(Dispatcher)
    /\ WF_vars(\E w \in DOMAIN workers : Worker(w))
    /\ WF_vars(CrawlReturn)
    /\ WF_vars(PEStep)
    /\ WF_vars(DlStep)

\* ----------------------------------------------------------------- run_entry

AttemptsRemain_GiveUpEarly(rc, cfg) == rc + 1 < cfg

AttemptsRemain_OneMore(rc, cfg) == rc <= cfg

\* while retry_count < config_data.retry_count && !success
AttemptsRemain(rc, cfg) == rc < cfg

Delay_NextIndex(rc, delays) ==
    IF rc + 1 < Len(delays) THEN delays[rc + 2] ELSE DefaultDelay

\* let delay = if retry_count < retry_delay.len() { retry_delay[retry_count] }
\* else { 60 }: the delay after the failed attempt with 0-based index rc.
Delay(rc, delays) == IF rc < Len(delays) THEN delays[rc + 1] ELSE DefaultDelay

\* Where run_entry goes when it tests the loop condition with retry count rc.
LoopTest(rc) == IF AttemptsRemain(rc, cfgRetry) THEN "crawl" ELSE "exhausted"

\* Err(anyhow!(..)) of run_entry
Failure(kind, msg, retries) == [kind |-> kind, msg |-> msg, retries |-> retries]

\* run_entry up to the retry loop: load_entries, the existence and disabled
\* checks, create_dir_all of the output and ERRORS directories (dirOk).
IsDisabled_Never(e) == FALSE

\* entry.status == CrawlStatus::Disabled
IsDisabled(e) == e.status = "Disabled"

RunStartWith(n, dirOk) ==
    /\ runPc = "idle"
    /\ runsStarted < MaxRuns
    /\ runsStarted' = runsStarted + 1
    /\ runName' = n
    /\ mem' = registry
    /\ attempts' = << >>
    /\ sleeps' = << >>
    /\ retryCount' = 0
    /\ lastError' = "none"
    /\ procErr' = "none"
    /\ IF IsDisabled(registry[n])
       THEN /\ ret' = Failure("disabled", "is disabled", 0)
            /\ runPc' = "idle"
       ELSE IF ~dirOk
            THEN /\ ret' = Failure("io", "Failed to create output directory", 0)
                 /\ runPc' = "idle"
            ELSE /\ ret' = NoReturn
                 /\ runPc' = LoopTest(0)
    /\ UNCHANGED << pureVars, crawlVars, histVars, stageVars, cfgRetry, cfgDelay, registry,
                    now, errorFiles, successes >>

RunStart == \E n \in Names, dirOk \in BOOLEAN : RunStartWith(n, dirOk)

\* process_with_retry enters crawler.process_entry: last_try, the disabled check
RunCrawlBegin ==
    /\ runPc = "crawl"
    /\ mem' = [mem EXCEPT ![runName] = MarkTried(@, now)]
    /\ runPc' = IF mem[runName].status = "Disabled" THEN "convert" ELSE "crawling"
    /\ UNCHANGED << pureVars, crawlVars, histVars, stageVars, cfgRetry, cfgDelay, sleeps,
                    registry, runName, retryCount, procErr, lastError, ret, now,
                    errorFiles, attempts, successes, runsStarted >>

\* crawler.process_entry(entry).await? returns: Ok after last_download and
\* version were updated, or an error; AsyncSpider::new fails on a URL that
\* does not parse
RunCrawlEndWith(ok) ==
    /\ runPc = "crawling"
    /\ IF ok /\ mem[runName].url # "unparsable"
       THEN /\ mem' = [mem EXCEPT ![runName] = MarkDownloaded(@, now)]
            /\ runPc' = "convert"
            /\ UNCHANGED procErr
       ELSE /\ procErr' = "crawl"
            /\ runPc' = "failed"
            /\ UNCHANGED mem
    /\ UNCHANGED << pureVars, crawlVars, histVars, stageVars, cfgRetry, cfgDelay, sleeps,
                    registry, runName, retryCount, lastError, ret, now, errorFiles,
                    attempts, successes, runsStarted >>

RunCrawlEnd == \E ok \in BOOLEAN : RunCrawlEndWith(ok)

\* converter.convert_directory(&entry.name).await?
RunConvertWith(ok) ==
    /\ runPc = "convert"
    /\ IF ok
       THEN /\ runPc' = "combine"
            /\ UNCHANGED procErr
       ELSE /\ procErr' = "convert"
            /\ runPc' = "failed"
    /\ UNCHANGED << pureVars, crawlVars, histVars, stageVars, cfgRetry, cfgDelay, sleeps,
                    registry, mem, runName, retryCount, lastError, ret, now, errorFiles,
                    attempts, successes, runsStarted >>

RunConvert == \E ok \in BOOLEAN : RunConvertWith(ok)

\* processor.process_entry(&entry.name, &entry.url)?; combine_files fails on a
\* base URL that does not parse or has no host
RunCombineWith(ok) ==
    /\ runPc = "combine"
    /\ IF ok /\ mem[runName].url = "valid"
       THEN /\ runPc' = "succeeded"
            /\ UNCHANGED procErr
       ELSE /\ procErr' = "combine"
            /\ runPc' = "failed"
    /\ UNCHANGED << pureVars, crawlVars, histVars, stageVars, cfgRetry, cfgDelay, sleeps,
                    registry, mem, runName, retryCount, lastError, ret, now, errorFiles,
                    attempts, successes, runsStarted >>

RunCombine == \E ok \in BOOLEAN : RunCombineWith(ok)

\* Ok(result_file): last_download, status Enabled, version += 1, save_entries
\* of the whole map, return
RunOnSuccess ==
    /\ runPc = "succeeded"
    /\ mem' = [mem EXCEPT ![runName] =
                  [@ EXCEPT !.last_download = {now}, !.status = "Enabled",
                            !.version = @ + 1]]
    /\ registry' = mem'
    /\ ret' = [kind |-> "ok", msg |-> "none", retries |-> retryCount]
    /\ runPc' = "idle"
    /\ attempts' = Append(attempts, "ok")
    /\ successes' = [successes EXCEPT ![runName] = @ + 1]
    /\ UNCHANGED << pureVars, crawlVars, histVars, stageVars, cfgRetry, cfgDelay, sleeps,
                    runName, retryCount, procErr, lastError, now, errorFiles,
                    runsStarted >>

RunOnFailure_NotSaved ==
    /\ runPc = "failed"
    /\ errorFiles' = errorFiles \cup {now}
    /\ mem' = [mem EXCEPT ![runName].last_fail = {now}]
    /\ attempts' = Append(attempts, procErr)
    /\ sleeps' = Append(sleeps, Delay(retryCount, cfgDelay))
    /\ runPc' = "sleep"
    /\ UNCHANGED << pureVars, crawlVars, histVars, stageVars, cfgRetry, cfgDelay, runName,
                    registry, retryCount, procErr, lastError, ret, now, successes,
                    runsStarted >>

\* Err(e): the error file error_<now>.txt, last_fail, save_entries of the
\* whole map; the backoff sleep follows
RunOnFailure ==
    /\ runPc = "failed"
    /\ errorFiles' = errorFiles \cup {now}
    /\ mem' = [mem EXCEPT ![runName].last_fail = {now}]
    /\ registry' = mem'
    /\ attempts' = Append(attempts, procErr)
    /\ sleeps' = Append(sleeps, Delay(retryCount, cfgDelay))
    /\ runPc' = "sleep"
    /\ UNCHANGED << pureVars, crawlVars, histVars, stageVars, cfgRetry, cfgDelay, runName,
                    retryCount, procErr, lastError, ret, now, successes, runsStarted >>

\* tokio::time::sleep(delay) ends, at least a second after the failure unless
\* the delay is 0: retry_count += 1; last_error = Some(e); the loop test
RunSleepDone ==
    /\ runPc = "sleep"
    /\ sleeps[Len(sleeps)] = 0 \/ \A t \in mem[runName].last_fail : now > t
    /\ retryCount' = retryCount + 1
    /\ lastError' = procErr
    /\ runPc' = LoopTest(retryCount + 1)
    /\ UNCHANGED << pureVars, crawlVars, histVars, stageVars, cfgRetry, cfgDelay, sleeps,
                    registry, mem, runName, procErr, ret, now, errorFiles, attempts,
                    successes, runsStarted >>

\* all retries failed: status Failed, save_entries of the whole map,
\* Err("Failed to process entry after {retry_count} retries: {last_error}")
RunExhausted ==
    /\ runPc = "exhausted"
    /\ mem' = [mem EXCEPT ![runName].status = "Failed"]
    /\ registry' = mem'
    /\ ret' = Failure("exhausted",
                      IF lastError = "none" THEN "Unknown error" ELSE lastError,
                      retryCount)
    /\ runPc' = "idle"
    /\ UNCHANGED << pureVars, crawlVars, histVars, stageVars, cfgRetry, cfgDelay, sleeps,
                    runName, retryCount, procErr, lastError, now, errorFiles, attempts,
                    successes, runsStarted >>

\* stop_url(name): load_entries, status = Disabled, save_entries
StopUrl(n) ==
    /\ registry' = [registry EXCEPT ![n].status = "Disabled"]
    /\ UNCHANGED << pureVars, crawlVars, histVars, stageVars, cfgRetry, cfgDelay, sleeps,
                    mem, runPc, runName, retryCount, procErr, lastError, ret, now,
                    errorFiles, attempts, successes, runsStarted >>

\* start_url(name): load_entries, status = Enabled, save_entries
StartUrl(n) ==
    /\ registry' = [registry EXCEPT ![n].status = "Enabled"]
    /\ UNCHANGED << pureVars, crawlVars, histVars, stageVars, cfgRetry, cfgDelay, sleeps,
                    mem, runPc, runName, retryCount, procErr, lastError, ret, now,
                    errorFiles, attempts, successes, runsStarted >>

\* A second passes.
Tick ==
    /\ now < MaxClock
    /\ now' = now + 1
    /\ UNCHANGED << pureVars, crawlVars, histVars, stageVars, cfgRetry, cfgDelay, sleeps,
                    registry, mem, runPc, runName, retryCount, procErr, lastError, ret,
                    errorFiles, attempts, successes, runsStarted >>

\* The orchestrator and the registry commands; the crawl stage is taken as a
\* single call that returns Ok or an error.
InitRun ==
    /\ cfgMaxConcurrent = DefaultMaxConcurrentRequests
    /\ maxDepth = 0
    /\ robots = RobotsDefault
    /\ SpiderNew
    /\ dPc = "unspawned"
    /\ crawlPc = "unspawned"
    /\ StageIdle
    /\ cfgRetry \in 0..MaxRetry
    /\ cfgDelay \in RetryDelayLists
    /\ \E u \in UrlKinds : RunIdleWith(u)
    /\ PureIdle

NextRun ==
    \/ RunStart
    \/ RunCrawlBegin
    \/ RunCrawlEnd
    \/ RunConvert
    \/ RunCombine
    \/ RunOnSuccess
    \/ RunOnFailure
    \/ RunSleepDone
    \/ RunExhausted
    \/ \E n \in Names : StopUrl(n)
    \/ \E n \in Names : StartUrl(n)
    \/ Tick

SpecRun == InitRun /\ [][NextRun]_vars

\* ----------------------------------------------------------------- fetch_url

\* No crawl and no run_entry in progress: the program as InitRun leaves it,
\* under the default configuration.
ProgramIdle ==
    /\ cfgMaxConcurrent = DefaultMaxConcurrentRequests
    /\ maxDepth = 1
    /\ robots = RobotsDefault
    /\ SpiderNew
    /\ dPc = "unspawned"
    /\ crawlPc = "unspawned"
    /\ StageIdle
    /\ cfgRetry = 0
    /\ cfgDelay = DefaultRetryDelay
    /\ RunIdle

\* Status codes a server answers with.
HttpStatuses == { 200, 204, 404, 500 }

\* One call of fetch_url: whether the URL string parses, whether the request
\* gets a response ("response"), fails in send ("send_error") or while the
\* body is read ("body_error"), the status of the response and the href
\* references of its body.
FetchRequests ==
    [parses : BOOLEAN, transport : { "response", "send_error", "body_error" },
     status : HttpStatuses, body : LinkLists]

\* Ok((parsed_url, body)) and Err(context message); neither holds a status.
FetchOk(body) == [kind |-> "Ok", body |-> body, msg |-> "none", status |-> "none"]

FetchErr(msg) == [kind |-> "Err", body |-> << >>, msg |-> msg, status |-> "none"]

\* fetch_url: Url::parse(url)?, client.get(url).send().await?,
\* response.text().await?, Ok((parsed_url, body))
FetchUrl(req) ==
    IF ~req.parses THEN FetchErr("Invalid URL")
    ELSE IF req.transport = "send_error" THEN FetchErr("Failed to fetch URL")
    ELSE IF req.transport = "body_error" THEN FetchErr("Failed to read response body")
    ELSE FetchOk(req.body)

\* match fetch_url(&client, &url).await
FetchCall ==
    /\ fxPc = "call"
    /\ fxRes' = FetchUrl(fxReq)
    /\ fxPc' = "handle"
    /\ UNCHANGED << moreVars, docVars, crawlVars, histVars, stageVars, runVars, fxReq, fxPage, fxLinks,
                    fxSaved, pipeVars, mediaVars, linkVars >>

\* The arms of the match for the seed page (depth 0): Ok enqueues the links of
\* the body and sends the Page, Err warns.
FetchHandle ==
    /\ fxPc = "handle"
    /\ IF fxRes.kind = "Ok"
       THEN /\ fxLinks' = IF ExtractAllowed(0, maxDepth)
                          THEN EnqueueLinks(fxRes.body, 0, {}, << >>, { Seed })[2]
                          ELSE << >>
            /\ fxPage' = fxRes.body
            /\ fxPc' = "store"
       ELSE /\ fxPc' = "done"
            /\ UNCHANGED << fxLinks, fxPage >>
    /\ UNCHANGED << moreVars, docVars, crawlVars, histVars, stageVars, runVars, fxReq, fxRes, fxSaved,
                    pipeVars, mediaVars, linkVars >>

\* The page store receives the Page and writes <url>.html.
FetchStore ==
    /\ fxPc = "store"
    /\ fxSaved' = fxPage
    /\ fxPc' = "done"
    /\ UNCHANGED << moreVars, docVars, crawlVars, histVars, stageVars, runVars, fxReq, fxRes, fxPage,
                    fxLinks, pipeVars, mediaVars, linkVars >>

InitFetch ==
    /\ ProgramIdle
    /\ DocIdle
    /\ MoreIdle
    /\ fxReq \in FetchRequests
    /\ fxRes = "none"
    /\ fxPc = "call"
    /\ fxPage = "none"
    /\ fxLinks = << >>
    /\ fxSaved = "none"
    /\ PipeIdle
    /\ MediaIdle
    /\ LinkIdle

NextFetch ==
    \/ FetchCall
    \/ FetchHandle
    \/ FetchStore

SpecFetch == InitFetch /\ [][NextFetch]_vars

\* ------------------------------------------------------------ page channels

\* The pages of a crawl on their way from the fetch workers to the page
\* store, counted: page k is the k-th page sent on page_tx.

\* let _ = page_tx.send(page): a broadcast send never waits
PipeSend ==
    /\ ppPc # "idle"
    /\ ~ppClosed
    /\ ppSent < MaxPages
    /\ ppSent' = ppSent + 1
    /\ UNCHANGED << moreVars, docVars, crawlVars, histVars, stageVars, runVars, fetchVars, ppRecv,
                    ppForwarded, ppStored, ppClosed, ppPc, mediaVars, linkVars >>

\* The spider and its last worker are gone: every page_tx is dropped.
PipeClose ==
    /\ ppPc # "idle"
    /\ ~ppClosed
    /\ ppClosed' = TRUE
    /\ UNCHANGED << moreVars, docVars, crawlVars, histVars, stageVars, runVars, fetchVars, ppSent, ppRecv,
                    ppForwarded, ppStored, ppPc, mediaVars, linkVars >>

\* while let Ok(page) = pages_rx.recv().await: Err(Lagged) when more pages
\* than the channel holds are waiting, the next page otherwise, Err(Closed)
\* when none is waiting and every sender is dropped; any Err ends the loop.
PipeRecv ==
    /\ ppPc = "forward"
    /\ IF ppSent - ppRecv > PageChannelCapacity
       THEN /\ ppPc' = "await_dl"
            /\ UNCHANGED ppRecv
       ELSE IF ppSent > ppRecv
            THEN /\ ppRecv' = ppRecv + 1
                 /\ ppPc' = "send"
            ELSE /\ ppClosed
                 /\ ppPc' = "await_dl"
                 /\ UNCHANGED ppRecv
    /\ UNCHANGED << moreVars, docVars, crawlVars, histVars, stageVars, runVars, fetchVars, ppSent,
                    ppForwarded, ppStored, ppClosed, mediaVars, linkVars >>

\* let _ = dl_tx.send((page.url, page.body)).await: waits while the channel
\* is full
PipeForward ==
    /\ ppPc = "send"
    /\ ppForwarded - ppStored < DownloadChannelCapacity
    /\ ppForwarded' = ppForwarded + 1
    /\ ppPc' = "forward"
    /\ UNCHANGED << moreVars, docVars, crawlVars, histVars, stageVars, runVars, fetchVars, ppSent, ppRecv,
                    ppStored, ppClosed, mediaVars, linkVars >>

\* dl_task: dl_rx.recv() yields a page and the page is written
PipeStore ==
    /\ ppForwarded > ppStored
    /\ ppStored' = ppStored + 1
    /\ UNCHANGED << moreVars, docVars, crawlVars, histVars, stageVars, runVars, fetchVars, ppSent, ppRecv,
                    ppForwarded, ppClosed, ppPc, mediaVars, linkVars >>

InitPipe ==
    /\ ProgramIdle
    /\ DocIdle
    /\ MoreIdle
    /\ FetchIdle
    /\ ppSent = 0
    /\ ppRecv = 0
    /\ ppForwarded = 0
    /\ ppStored = 0
    /\ ppClosed = FALSE
    /\ ppPc = "forward"
    /\ MediaIdle
    /\ LinkIdle

NextPipe ==
    \/ PipeSend
    \/ PipeClose
    \/ PipeRecv
    \/ PipeForward
    \/ PipeStore

SpecPipe == InitPipe /\ [][NextPipe]_vars

\* ---------------------------------------------------------- download_images

\* The media URLs a page refers to; two of them differ in the query only.
MediaUrls ==
    { [path |-> "/a.png", query |-> ""], [path |-> "/a.png", query |-> "v=2"],
      [path |-> "/b.png", query |-> ""] }

\* media_dir.join(format!("{}.{}", url_to_filename(&full_url), extension)):
\* host and path of the URL name the file, the query does not.
MediaFile(u) == u.path

\* What the server does with a request for a media URL: an image/* response
\* ("image"), a response of another content type ("not_image"), a failed
\* request ("send_error"), a body that cannot be read ("body_error").
MediaAnswers == { "image", "not_image", "send_error", "body_error" }

MediaPages == UNION { [1..n -> MediaUrls] : n \in 0..MaxImages }

RECURSIVE DownloadImages_NoSkip(_, _, _, _)
DownloadImages_NoSkip(refs, server, disk, reqs) ==
    IF refs = << >> THEN [disk |-> disk, requests |-> reqs]
    ELSE LET u == Head(refs)
         IN  DownloadImages_NoSkip(Tail(refs), server,
                 IF server[u] = "image" THEN disk \cup { MediaFile(u) } ELSE disk,
                 Append(reqs, u))

\* for image_url in image_urls: skip if file_path.exists(); otherwise
\* client.get(full_url).send(), and File::create + write_all when the response
\* is an image and its bytes can be read. Returns the media directory and the
\* requests issued.
RECURSIVE DownloadImages(_, _, _, _)
DownloadImages(refs, server, disk, reqs) ==
    IF refs = << >> THEN [disk |-> disk, requests |-> reqs]
    ELSE LET u == Head(refs)
         IN  IF MediaFile(u) \in disk
             THEN DownloadImages(Tail(refs), server, disk, reqs)
             ELSE DownloadImages(Tail(refs), server,
                      IF server[u] = "image" THEN disk \cup { MediaFile(u) } ELSE disk,
                      Append(reqs, u))

\* One run of download_images for the page.
MediaRun ==
    /\ mdRuns < MaxMediaRuns
    /\ LET r == DownloadImages(mdPage, mdServer, mdDisk, << >>)
       IN  /\ mdDisk' = r.disk
           /\ mdRequests' = r.requests
    /\ mdRuns' = mdRuns + 1
    /\ UNCHANGED << moreVars, docVars, crawlVars, histVars, stageVars, runVars, fetchVars, pipeVars,
                    mdPage, mdServer, linkVars >>

\* A page, a server and an empty media directory.
InitMedia ==
    /\ ProgramIdle
    /\ DocIdle
    /\ MoreIdle
    /\ FetchIdle
    /\ PipeIdle
    /\ mdPage \in MediaPages
    /\ mdServer \in [MediaUrls -> MediaAnswers]
    /\ mdDisk = {}
    /\ mdRequests = << >>
    /\ mdRuns = 0
    /\ LinkIdle

NextMedia == MediaRun

SpecMedia == InitMedia /\ [][NextMedia]_vars

\* ------------------------------------------------------------ process_links

\* A Markdown line is a sequence of tokens: the characters "[", "]", "(", ")",
\* a character of text "t", and absolute URLs "I" (https://example.com/),
\* "S" (https://docs.example.com/) and "E" (https://other.com/).
UrlTokens == { "I", "S", "E" }

\* parsed_url.host_str(), as a sequence of labels
TokenHost(tok) ==
    CASE tok = "I" -> << "example", "com" >>
      [] tok = "S" -> << "docs", "example", "com" >>
      [] tok = "E" -> << "other", "com" >>

\* The base domain of the entry: example.com
BaseDomain == << "example", "com" >>

\* host.contains(base_domain)
HostContains(host, base) ==
    \E i \in 1..Len(host) :
        i + Len(base) - 1 <= Len(host) /\ SubSeq(host, i, i + Len(base) - 1) = base

\* Url::parse(url) and host_str(): the first URL the string starts with, when
\* only characters of a scheme precede it; "none" for Err and for no host.
ParseHost(url) ==
    LET rest == { k \in DOMAIN url : url[k] # "t" }
    IN  IF rest = {} THEN "none"
        ELSE LET k == CHOOSE j \in rest : \A l \in rest : j <= l
             IN  IF url[k] \in UrlTokens THEN url[k] ELSE "none"

\* result[from..].find("]("): the index of the "]", 0 for None
FindLinkMiddle(str, from) ==
    LET hits == { i \in from..(Len(str) - 1) : str[i] = "]" /\ str[i + 1] = "(" }
    IN  IF hits = {} THEN 0 ELSE CHOOSE i \in hits : \A j \in hits : i <= j

\* result[..before].rfind(c), 0 for None
RFindChar(str, before, c) ==
    LET hits == { i \in 1..(before - 1) : str[i] = c }
    IN  IF hits = {} THEN 0 ELSE CHOOSE i \in hits : \A j \in hits : i >= j

\* result[from..].find(c), 0 for None
FindChar(str, from, c) ==
    LET hits == { i \in from..Len(str) : str[i] = c }
    IN  IF hits = {} THEN 0 ELSE CHOOSE i \in hits : \A j \in hits : i <= j

\* str.replace(pat, to): every non-overlapping match, from the left
RECURSIVE ReplaceAll(_, _, _)
ReplaceAll(str, pat, to) ==
    IF Len(str) < Len(pat) THEN str
    ELSE IF SubSeq(str, 1, Len(pat)) = pat
         THEN to \o ReplaceAll(SubSeq(str, Len(pat) + 1, Len(str)), pat, to)
         ELSE << str[1] >> \o ReplaceAll(Tail(str), pat, to)

\* The while loop of process_links; linkStart is link_start + 1.
RECURSIVE ProcessLinksFrom(_, _, _)
ProcessLinksFrom(result, linkStart, base) ==
    LET realPos == FindLinkMiddle(result, linkStart)
        textStart == RFindChar(result, realPos, "[")
        urlEnd == FindChar(result, realPos + 2, ")")
        url == SubSeq(result, realPos + 2, urlEnd - 1)
        host == ParseHost(url)
        text == SubSeq(result, textStart + 1, realPos - 1)
        link == SubSeq(result, textStart, urlEnd)
    IN  IF realPos = 0 THEN result
        ELSE IF textStart = 0 THEN ProcessLinksFrom(result, realPos + 2, base)
        ELSE IF urlEnd = 0 THEN result
        ELSE IF host # "none" /\ ~HostContains(TokenHost(host), base)
             THEN ProcessLinksFrom(ReplaceAll(result, link, text), 1, base)
             ELSE ProcessLinksFrom(result, realPos + 2, base)

\* Processor::process_links(line, base_domain)
ProcessLinks(line, base) == ProcessLinksFrom(line, 1, base)

\* [text](url) with a text of one character
MdLink(u) == << "[", "t", "]", "(", u, ")" >>

\* What lines are put together from: text, links, an opening bracket with
\* text, and text that closes a bracket opened earlier with a URL.
Fragments ==
    { << "t" >>, << "[", "t" >>, MdLink("I"), MdLink("S"), MdLink("E"),
      << "t", "]", "(", "I", ")" >>, << "t", "]", "(", "E", ")" >> }

RECURSIVE Concat(_)
Concat(frags) == IF frags = << >> THEN << >> ELSE Head(frags) \o Concat(Tail(frags))

MdLines == { Concat(fs) : fs \in UNION { [1..n -> Fragments] : n \in 0..MaxFragments } }

\* let processed_line = self.process_links(line, base_domain)
ProcessLinksCall ==
    /\ plPc = "call"
    /\ plOut' = ProcessLinks(plLine, plBase)
    /\ plPc' = "done"
    /\ UNCHANGED << moreVars, docVars, crawlVars, histVars, stageVars, runVars, fetchVars, pipeVars,
                    mediaVars, plLine, plBase >>

InitLinks ==
    /\ ProgramIdle
    /\ DocIdle
    /\ MoreIdle
    /\ FetchIdle
    /\ PipeIdle
    /\ MediaIdle
    /\ plLine \in MdLines
    /\ plBase = BaseDomain
    /\ plOut = << >>
    /\ plPc = "call"

NextLinks == ProcessLinksCall

SpecLinks == InitLinks /\ [][NextLinks]_vars

\* ------------------------------------------------------- Processor (combine)

\* A Markdown document is a sequence of tokens: those of a line (see
\* process_links), the line feed "nl", a blank "sp", "!", the heading mark
\* "##", a file stem, and the pieces of HTML media tags: "<img", "<video",
\* "<audio", ">", "/>", "</img>", "</video>", "</audio>".

\* str.lines(): the pieces between line feeds, without a last empty piece
RECURSIVE Lines(_)
Lines(str) ==
    IF str = << >> THEN << >>
    ELSE LET k == FindChar(str, 1, "nl")
         IN  IF k = 0 THEN << str >>
             ELSE << SubSeq(str, 1, k - 1) >> \o Lines(SubSeq(str, k + 1, Len(str)))

\* lines.join("\n")
RECURSIVE JoinLines(_)
JoinLines(ls) ==
    IF ls = << >> THEN << >>
    ELSE IF Len(ls) = 1 THEN ls[1]
    ELSE ls[1] \o << "nl" >> \o JoinLines(Tail(ls))

\* line.trim()
RECURSIVE TrimStart(_)
TrimStart(line) ==
    IF line # << >> /\ Head(line) = "sp" THEN TrimStart(Tail(line)) ELSE line

\* line.trim().is_empty()
IsBlank(line) == \A k \in DOMAIN line : line[k] = "sp"

\* line.trim().starts_with("![") && line.contains("](") && line.contains(")")
IsImageLine(line) ==
    LET t == TrimStart(line)
    IN  /\ Len(t) >= 2 /\ t[1] = "!" /\ t[2] = "["
        /\ FindLinkMiddle(line, 1) # 0
        /\ FindChar(line, 1, ")") # 0

\* Processor::clean_content over the lines of a file
RECURSIVE CleanLines(_, _)
CleanLines(ls, base) ==
    IF ls = << >> THEN << >>
    ELSE IF IsImageLine(Head(ls)) THEN CleanLines(Tail(ls), base)
    ELSE ProcessLinks(Head(ls), base) \o << "nl" >> \o CleanLines(Tail(ls), base)

CleanContent(content, base) == CleanLines(Lines(content), base)

\* The first loop of final_cleanup: a blank line after a blank line is dropped
RECURSIVE CollapseBlank(_, _)
CollapseBlank(ls, prevBlank) ==
    IF ls = << >> THEN << >>
    ELSE IF IsBlank(Head(ls)) /\ prevBlank THEN CollapseBlank(Tail(ls), prevBlank)
    ELSE << Head(ls) >> \o CollapseBlank(Tail(ls), IsBlank(Head(ls)))

\* format!("<{}", tag) and format!("</{}>", tag)
OpenTag(tag) ==
    CASE tag = "img" -> "<img" [] tag = "video" -> "<video" [] tag = "audio" -> "<audio"

CloseTag(tag) ==
    CASE tag = "img" -> "</img>" [] tag = "video" -> "</video>" [] tag = "audio" -> "</audio>"

\* The tokens that hold a '>'
HasGt(tok) == tok \in { ">", "/>", "</img>", "</video>", "</audio>" }

\* result[from..].find('>'), 0 for None
FindGt(str, from) ==
    LET hits == { i \in from..Len(str) : HasGt(str[i]) }
    IN  IF hits = {} THEN 0 ELSE CHOOSE i \in hits : \A j \in hits : i <= j

\* str without its tokens from..to
Cut(str, from, to) == SubSeq(str, 1, from - 1) \o SubSeq(str, to + 1, Len(str))

\* Processor::remove_html_tags
RECURSIVE RemoveHtmlTags(_, _)
RemoveHtmlTags(result, tag) ==
    LET start == FindChar(result, 1, OpenTag(tag))
        end == FindGt(result, start)
        closeStart == FindChar(result, end + 1, CloseTag(tag))
    IN  IF start = 0 THEN result
        ELSE IF end = 0 THEN result
        ELSE IF result[end] = "/>" THEN RemoveHtmlTags(Cut(result, start, end), tag)
        ELSE IF closeStart # 0 THEN RemoveHtmlTags(Cut(result, start, closeStart), tag)
        ELSE RemoveHtmlTags(Cut(result, start, end), tag)

\* Processor::final_cleanup
FinalCleanup(content) ==
    LET joined == JoinLines(CollapseBlank(Lines(content), FALSE))
    IN  RemoveHtmlTags(RemoveHtmlTags(RemoveHtmlTags(joined, "img"), "video"), "audio")

\* The loop of combine_files over the files in the order it is given them
RECURSIVE CombineSections(_, _, _)
CombineSections(listing, files, base) ==
    IF listing = << >> THEN << >>
    ELSE << "nl", "nl", "##", Head(listing), "nl", "nl" >>
         \o CleanContent(files[Head(listing)], base)
         \o CombineSections(Tail(listing), files, base)

\* Processor::combine_files
CombineFiles(listing, files, base) == FinalCleanup(CombineSections(listing, files, base))

\* The file stems of the .md files, in ascending order
FileStems == << "a", "b" >>

\* The lines of a per-page Markdown file
FileLines ==
    { << >>, << "t" >>, MdLink("E"), << "!" >> \o MdLink("I"), << "<img", "/>" >> }

FileContents ==
    { JoinLines(ls) : ls \in UNION { [1..n -> FileLines] : n \in 1..MaxFileLines } }

\* The orders read_dir may yield the entries of a directory in
Listings(stems) ==
    { l \in UNION { [1..n -> stems] : n \in { Cardinality(stems) } } :
        \A i, j \in DOMAIN l : i # j => l[i] # l[j] }

\* Processor::process_entry: list the directory, combine, write the result
ProcessEntryWith(listing, ioOk) ==
    /\ Len(cb.outs) < MaxCombineRuns
    /\ cb' = [cb EXCEPT
                 !.listings = Append(@, listing),
                 !.outs = Append(@, IF ioOk
                                    THEN << "Ok" >> \o CombineFiles(listing, cb.files, BaseDomain)
                                    ELSE << "Err" >>)]
    /\ UNCHANGED << moreVars, crawlVars, histVars, stageVars, runVars, fetchVars, pipeVars,
                    mediaVars, linkVars, fc, cv, el >>

ProcessEntry ==
    \E listing \in Listings(DOMAIN cb.files), ioOk \in BOOLEAN :
        ProcessEntryWith(listing, ioOk)

InitCombine ==
    /\ ProgramIdle
    /\ FetchIdle
    /\ PipeIdle
    /\ MediaIdle
    /\ LinkIdle
    /\ MoreIdle
    /\ CleanupIdle
    /\ ConvertIdle
    /\ ExtractIdle
    /\ \E stems \in SUBSET { FileStems[k] : k \in DOMAIN FileStems } :
           \E files \in [stems -> FileContents] :
               cb = [files |-> files, listings |-> << >>, outs |-> << >>]

NextCombine == ProcessEntry

SpecCombine == InitCombine /\ [][NextCombine]_vars

\* ------------------------------------------------------------ final_cleanup

DocTokens == { "t", "nl", "sp", "<img", "<video", ">", "/>", "</video>" }

\* The content combine_files has put together when it calls final_cleanup:
\* the section of one file with the given text.
Doc(body) == CombineSections(<< "a" >>, [f \in { "a" } |-> body], BaseDomain)

\* self.final_cleanup(&combined)
FinalCleanupCall ==
    /\ fc.pc = "call"
    /\ fc' = [fc EXCEPT !.out = FinalCleanup(fc.doc), !.pc = "done"]
    /\ UNCHANGED << moreVars, crawlVars, histVars, stageVars, runVars, fetchVars, pipeVars,
                    mediaVars, linkVars, cb, cv, el >>

InitCleanup ==
    /\ ProgramIdle
    /\ FetchIdle
    /\ PipeIdle
    /\ MediaIdle
    /\ LinkIdle
    /\ MoreIdle
    /\ CombineIdle
    /\ ConvertIdle
    /\ ExtractIdle
    /\ \E n \in 0..MaxDocLen :
           \E body \in [1..n -> DocTokens] :
               fc = [doc |-> Doc(body), out |-> << >>, pc |-> "call"]

NextCleanup == FinalCleanupCall

SpecCleanup == InitCleanup /\ [][NextCleanup]_vars

\* ---------------------------------------------------------------- Converter

\* config.transform_md_using
TransformMethods == { "Htmd", "FastHtml2md", "JinaReader" }

\* The cargo features the crate can be built with
Features == { "htmd", "fast-html2md" }

\* The stems of the .html files url_to_filename produced
HtmlStems == { "example.com_", "example.com_a" }

\* What a page holds of a title: <title>T</title>, a title element with
\* attributes, or none
TitleKinds == { "plain", "with_attrs", "absent" }

\* What the Jina Reader request ends with
JinaAnswers == { "success", "error_status", "send_error", "body_error" }

ConvOk(md) == [kind |-> "Ok", md |-> md]

ConvErr(msg) == [kind |-> "Err", md |-> "none", msg |-> msg]

\* Converter::extract_title_from_html: the text between "<title>" and "</title>"
ExtractTitleFromHtml(html) == IF html.title = "plain" THEN "T" ELSE "none"

\* Converter::simple_html_to_markdown, and the heading put before its result
SimpleHtmlToMarkdown(html) == [heading |-> "none", text |-> "stripped"]

WithTitle(md, title) == [md EXCEPT !.heading = title]

\* Converter::convert_with_htmd
ConvertWithHtmd(html, features) ==
    IF "htmd" \in features
    THEN ConvOk(WithTitle(SimpleHtmlToMarkdown(html), ExtractTitleFromHtml(html)))
    ELSE ConvErr("htmd feature is not enabled")

\* Converter::convert_with_fast_html2md
ConvertWithFastHtml2md(html, features) ==
    IF "fast-html2md" \in features
    THEN ConvOk(WithTitle(SimpleHtmlToMarkdown(html), ExtractTitleFromHtml(html)))
    ELSE ConvErr("fast-html2md feature is not enabled")

\* Converter::convert_with_jina_reader
ConvertWithJinaReader(answer) ==
    CASE answer = "success" -> ConvOk([heading |-> "remote", text |-> "remote"])
      [] answer = "error_status" -> ConvErr("Jina Reader error: HTTP")
      [] answer = "body_error" -> ConvErr("Failed to read Jina Reader response")
      [] answer = "send_error" -> ConvErr("Jina Reader request failed")

\* Converter::convert_file: read the page, convert it with the configured
\* method, write the Markdown file
ConvertFile(html, method, features, readOk, answer, writeOk) ==
    LET markdown ==
            CASE method = "Htmd" -> ConvertWithHtmd(html, features)
              [] method = "FastHtml2md" -> ConvertWithFastHtml2md(html, features)
              [] method = "JinaReader" -> ConvertWithJinaReader(answer)
    IN  IF ~readOk THEN ConvErr("Failed to read HTML file")
        ELSE IF markdown.kind = "Err" THEN markdown
        ELSE IF ~writeOk THEN ConvErr("Failed to write Markdown file")
        ELSE markdown

\* One turn of the loop of convert_directory
ConvertNextWith(readOk, answer, writeOk) ==
    /\ cv.pc = "loop"
    /\ cv.todo # << >>
    /\ LET stem == Head(cv.todo)
           res == ConvertFile(cv.html[stem], cv.method, cv.features, readOk, answer, writeOk)
       IN  cv' = [cv EXCEPT
                    !.md = IF res.kind = "Ok" THEN @ \cup { [stem |-> stem, md |-> res.md] }
                           ELSE @,
                    !.failed = IF res.kind = "Ok" THEN @
                               ELSE @ \cup { [stem |-> stem, msg |-> res.msg] },
                    !.todo = Tail(@)]
    /\ UNCHANGED << moreVars, crawlVars, histVars, stageVars, runVars, fetchVars, pipeVars,
                    mediaVars, linkVars, cb, fc, el >>

ConvertNext ==
    \E readOk \in BOOLEAN, answer \in JinaAnswers, writeOk \in BOOLEAN :
        ConvertNextWith(readOk, answer, writeOk)

\* convert_directory returns Ok(converted_files)
ConvertDirectoryReturn ==
    /\ cv.pc = "loop"
    /\ cv.todo = << >>
    /\ cv' = [cv EXCEPT !.pc = "ok"]
    /\ UNCHANGED << moreVars, crawlVars, histVars, stageVars, runVars, fetchVars, pipeVars,
                    mediaVars, linkVars, cb, fc, el >>

InitConvert ==
    /\ ProgramIdle
    /\ FetchIdle
    /\ PipeIdle
    /\ MediaIdle
    /\ LinkIdle
    /\ MoreIdle
    /\ CombineIdle
    /\ CleanupIdle
    /\ ExtractIdle
    /\ \E method \in TransformMethods, features \in SUBSET Features,
          stems \in SUBSET HtmlStems :
           \E html \in [stems -> [title : TitleKinds]], todo \in Listings(stems) :
               cv = [method |-> method, features |-> features, html |-> html,
                     todo |-> todo, md |-> {}, failed |-> {}, pc |-> "loop"]

NextConvert == ConvertNext \/ ConvertDirectoryReturn

SpecConvert == InitConvert /\ [][NextConvert]_vars

\* ------------------------------------------------------------ extract_links

\* A line of markup is a sequence of pieces: text, or an href attribute with
\* its quoting and its reference.
Quotes == { "double", "single", "none" }

\* References: an absolute path, an absolute URL of another host, a fragment,
\* the two schemes that are skipped, and one that Url::join rejects.
Hrefs == { "/a", "https://other.com/b", "#top", "javascript:void(0)", "mailto:x@y", "http://[" }

TextPiece == [quote |-> "text", href |-> "none"]

Pieces == { TextPiece } \cup [quote : Quotes, href : Hrefs]

MarkupLines == UNION { [1..n -> Pieces] : n \in 0..MaxPieces }

\* href.starts_with('#') || starts_with("javascript:") || starts_with("mailto:")
SkippedScheme(href) == href \in { "#top", "javascript:void(0)", "mailto:x@y" }

\* base_url.join(href) is Ok
JoinOk(href) == href # "http://["

\* base_url.join(href)
Join(base, href) ==
    CASE href = "/a" -> Url(Host(base), "/a")
      [] href = "https://other.com/b" -> Url("other.com", "/b")
      [] OTHER -> base

\* line.find("href=\""): the first double-quoted href of the line, 0 for None
FindHref(line) ==
    LET hits == { i \in DOMAIN line : line[i].quote = "double" }
    IN  IF hits = {} THEN 0 ELSE CHOOSE i \in hits : \A j \in hits : i <= j

\* The body of the loop of extract_links for one line
LineLinks(line, base) ==
    LET start == FindHref(line)
    IN  IF start = 0 THEN << >>
        ELSE IF SkippedScheme(line[start].href) THEN << >>
        ELSE IF JoinOk(line[start].href) THEN << Join(base, line[start].href) >>
        ELSE << >>

\* extract_links(html, base_url)
RECURSIVE ExtractLinks(_, _)
ExtractLinks(html, base) ==
    IF html = << >> THEN << >>
    ELSE LineLinks(Head(html), base) \o ExtractLinks(Tail(html), base)

\* let new_links = extract_links(&body, &parsed_url)
ExtractLinksCall ==
    /\ el.pc = "call"
    /\ el' = [el EXCEPT !.out = ExtractLinks(el.html, el.base), !.pc = "done"]
    /\ UNCHANGED << moreVars, crawlVars, histVars, stageVars, runVars, fetchVars, pipeVars,
                    mediaVars, linkVars, cb, fc, cv >>

InitExtract ==
    /\ ProgramIdle
    /\ FetchIdle
    /\ PipeIdle
    /\ MediaIdle
    /\ LinkIdle
    /\ MoreIdle
    /\ CombineIdle
    /\ CleanupIdle
    /\ ConvertIdle
    /\ \E n \in 0..MaxMarkupLines :
           \E html \in [1..n -> MarkupLines] :
               el = [html |-> html, base |-> Seed, out |-> << >>, pc |-> "call"]

NextExtract == ExtractLinksCall

SpecExtract == InitExtract /\ [][NextExtract]_vars

\* -------------------------------------- the page and the media semaphore

\* The frame of the actions below.
PoolFrame ==
    UNCHANGED << crawlVars, histVars, stageVars, runVars, fetchVars, pipeVars, mediaVars,
                 linkVars, docVars, lk, sm, ps >>

\* Semaphore::new(config.max_concurrent_requests as usize)
MediaPermits(cfg) == cfg

\* Media tasks that hold a permit of media_semaphore.
MediaRunning == { t \in DOMAIN mp.tasks : mp.tasks[t] = "run" }

\* The dispatcher acquires a permit of the spider's semaphore and spawns the
\* worker of the next page.
PoolFetchBegin ==
    /\ mp.left > 0
    /\ mp.pagePermits > 0
    /\ mp' = [mp EXCEPT !.left = @ - 1, !.pagePermits = @ - 1, !.fetching = @ + 1]
    /\ PoolFrame

\* The worker ends: on Ok its page goes through page_tx and dl_tx to the page
\* store; drop(permit).
PoolFetchEndWith(ok) ==
    /\ mp.fetching > 0
    /\ mp' = [mp EXCEPT !.fetching = @ - 1, !.pagePermits = @ + 1,
                        !.chan = IF ok THEN @ + 1 ELSE @]
    /\ PoolFrame

PoolFetchEnd == \E ok \in BOOLEAN : PoolFetchEndWith(ok)

\* dl_task receives a page, writes its HTML file and spawns the task that
\* downloads its images; the task itself waits for the permit.
PoolStore ==
    /\ mp.chan > 0
    /\ mp' = [mp EXCEPT !.chan = @ - 1, !.stored = @ + 1, !.tasks = Append(@, "wait")]
    /\ PoolFrame

MediaAcquire_PageSlot(t) ==
    /\ mp.tasks[t] = "wait"
    /\ mp.pagePermits > 0
    /\ mp' = [mp EXCEPT !.pagePermits = @ - 1, !.tasks[t] = "run"]
    /\ PoolFrame

\* let _permit = semaphore_clone.acquire().await.unwrap()
MediaAcquire(t) ==
    /\ mp.tasks[t] = "wait"
    /\ mp.mediaPermits > 0
    /\ mp' = [mp EXCEPT !.mediaPermits = @ - 1, !.tasks[t] = "run"]
    /\ PoolFrame

\* download_images returns (Ok or Err); _permit is dropped with the task
MediaEnd(t) ==
    /\ mp.tasks[t] = "run"
    /\ mp' = [mp EXCEPT !.mediaPermits = @ + 1, !.tasks[t] = "done"]
    /\ PoolFrame

\* A crawl stage of MaxPoolPages pages under every explored configuration.
InitPool ==
    /\ ProgramIdle
    /\ FetchIdle
    /\ PipeIdle
    /\ MediaIdle
    /\ LinkIdle
    /\ DocIdle
    /\ LocksIdle
    /\ SimpleIdle
    /\ StoreIdle
    /\ \E cfg \in 0..MaxConcurrent :
          mp = [cfg |-> cfg, pagePermits |-> SemaphorePermits(cfg),
                mediaPermits |-> MediaPermits(cfg), left |-> MaxPoolPages, fetching |-> 0,
                chan |-> 0, stored |-> 0, tasks |-> << >>]

NextPool ==
    \/ PoolFetchBegin
    \/ PoolFetchEnd
    \/ PoolStore
    \/ \E t \in DOMAIN mp.tasks : MediaAcquire(t)
    \/ \E t \in DOMAIN mp.tasks : MediaEnd(t)

SpecPool == InitPool /\ [][NextPool]_vars

\* ------------------------------------------------- a crawl of a fixed site

\* A site of six pages: the seed links to /a and /c, /a to /d, /d to /e, and
\* /c to /e and /f.
SiteUrls ==
    { Seed, Url("example.com", "/a"), Url("example.com", "/c"), Url("example.com", "/d"),
      Url("example.com", "/e"), Url("example.com", "/f") }

\* What extract_links returns for the body of every page of the site.
SiteLinks(u) ==
    CASE u = Seed -> << Url("example.com", "/a"), Url("example.com", "/c") >>
      [] u = Url("example.com", "/a") -> << Url("example.com", "/d") >>
      [] u = Url("example.com", "/d") -> << Url("example.com", "/e") >>
      [] u = Url("example.com", "/c") -> << Url("example.com", "/e"), Url("example.com", "/f") >>
      [] OTHER -> << >>

\* The spider on that site, with one or two fetch slots and a depth that
\* reaches every page; every request is answered.
InitSite ==
    /\ cfgMaxConcurrent \in 1..2
    /\ maxDepth = MaxDepth + 1
    /\ robots = RobotsDefault
    /\ queue = << [url |-> Seed, depth |-> 0] >>
    /\ visited = {}
    /\ linkSet = {}
    /\ permits = SemaphorePermits(cfgMaxConcurrent)
    /\ dItem = NoItem
    /\ dActive = 0
    /\ workers = << >>
    /\ doneSignalled = FALSE
    /\ bcast = << >>
    /\ fetchCount = [u \in SiteUrls \cup Urls |-> 0]
    /\ fetched = {}
    /\ enqLog = {}
    /\ reSeen = {}
    /\ dropped = {}
    /\ dPc = "pop"
    /\ crawlPc = "running"
    /\ StageIdle
    /\ cfgRetry = 0
    /\ cfgDelay = DefaultRetryDelay
    /\ RunIdle
    /\ PureIdle

SiteWorker(w) ==
    \/ WMarkVisited(w)
    \/ WFetchOk(w, SiteLinks(workers[w].url))
    \/ WSendPage(w)
    \/ WRelease(w)

NextSite ==
    \/ Dispatcher
    \/ \E w \in DOMAIN workers : SiteWorker(w)
    \/ CrawlReturn

SpecSite == InitSite /\ [][NextSite]_vars

\* --------------------------------------- run_entry and the registry commands

\* The names of the other entries that the registry commands work on while
\* run_entry runs.
OtherNames == { "api" }

\* add_url(url, Some(name), None): load_entries, refuse an existing name,
\* insert UrlEntry::new, save_entries
AddUrl(n) ==
    /\ n \notin DOMAIN registry
    /\ registry' = [k \in DOMAIN registry \cup { n } |->
                       IF k = n THEN NewEntry ELSE registry[k]]
    /\ UNCHANGED << pureVars, crawlVars, histVars, stageVars, cfgRetry, cfgDelay, sleeps,
                    mem, runPc, runName, retryCount, procErr, lastError, ret, now,
                    errorFiles, attempts, successes, runsStarted >>

\* remove_url(name): load_entries, refuse an unknown name, remove, save_entries
RemoveUrl(n) ==
    /\ n \in DOMAIN registry
    /\ registry' = [k \in DOMAIN registry \ { n } |-> registry[k]]
    /\ UNCHANGED << pureVars, crawlVars, histVars, stageVars, cfgRetry, cfgDelay, sleeps,
                    mem, runPc, runName, retryCount, procErr, lastError, ret, now,
                    errorFiles, attempts, successes, runsStarted >>

\* A registry of two entries; run_entry is called for "docs" while the
\* registry commands are used on the other entry.
InitRegistry ==
    /\ cfgMaxConcurrent = DefaultMaxConcurrentRequests
    /\ maxDepth = 0
    /\ robots = RobotsDefault
    /\ SpiderNew
    /\ dPc = "unspawned"
    /\ crawlPc = "unspawned"
    /\ StageIdle
    /\ cfgRetry \in 1..MaxRetry
    /\ cfgDelay = DefaultRetryDelay
    /\ registry = [n \in Names \cup OtherNames |-> NewEntry]
    /\ mem = registry
    /\ sleeps = << >>
    /\ runPc = "idle"
    /\ runName = "docs"
    /\ retryCount = 0
    /\ procErr = "none"
    /\ lastError = "none"
    /\ ret = NoReturn
    /\ now = 1
    /\ errorFiles = {}
    /\ attempts = << >>
    /\ successes = [n \in Names |-> 0]
    /\ runsStarted = 0
    /\ PureIdle

NextRegistry ==
    \/ RunStart
    \/ RunCrawlBegin
    \/ RunCrawlEnd
    \/ RunConvert
    \/ RunCombine
    \/ RunOnSuccess
    \/ RunOnFailure
    \/ RunSleepDone
    \/ RunExhausted
    \/ \E n \in OtherNames : AddUrl(n)
    \/ \E n \in OtherNames : RemoveUrl(n)
    \/ \E n \in OtherNames \cap DOMAIN registry : StopUrl(n)
    \/ \E n \in OtherNames \cap DOMAIN registry : StartUrl(n)
    \/ Tick

SpecRegistry == InitRegistry /\ [][NextRegistry]_vars

\* ------------------------------------- the three mutexes of AsyncSpider::crawl

\* links, queue, visited: Arc<Mutex<..>>
LockNames == { "links", "queue", "visited" }

\* Task 0 is the dispatcher task, the others are the workers in spawn order.
LockTasks == 0..MaxLockWorkers

\* No task holds the mutex.
Free == -1

LockFrame ==
    UNCHANGED << crawlVars, histVars, stageVars, runVars, fetchVars, pipeVars, mediaVars,
                 linkVars, docVars, mp, sm, ps >>

\* mutex.lock().unwrap() returns: the calling thread is blocked while another
\* task holds the mutex (std::sync::Mutex is not reentrant).
Lock(t, l, next) ==
    /\ lk.owner[l] = Free
    /\ lk' = [lk EXCEPT !.owner[l] = t, !.pc[t] = next]
    /\ LockFrame

\* let mut queue = queue.lock().unwrap();
LkDLockQueue == lk.pc[0] = "lock_queue" /\ Lock(0, "queue", "pop")

\* queue.pop_front(), the guard dropped at the end of the block
LkDPop ==
    /\ lk.pc[0] = "pop"
    /\ lk' = [lk EXCEPT !.owner["queue"] = Free,
                        !.items = IF @ > 0 THEN @ - 1 ELSE @,
                        !.pc[0] = IF lk.items > 0 THEN "lock_visited" ELSE "none"]
    /\ LockFrame

\* let visited_urls = visited.lock().unwrap();
LkDLockVisited == lk.pc[0] = "lock_visited" /\ Lock(0, "visited", "check")

\* if visited_urls.contains(&url) { continue; }, the guard dropped either way
LkDCheck(seen) ==
    /\ lk.pc[0] = "check"
    /\ lk' = [lk EXCEPT !.owner["visited"] = Free,
                        !.pc[0] = IF seen THEN "lock_queue" ELSE "acquire"]
    /\ LockFrame

\* semaphore.acquire_owned().await, then tokio::spawn of the worker
LkDSpawn ==
    /\ lk.pc[0] = "acquire"
    /\ lk.spawned < MaxLockWorkers
    /\ lk' = [lk EXCEPT !.spawned = @ + 1, !.pc[lk.spawned + 1] = "lock_visited",
                        !.pc[0] = "lock_queue"]
    /\ LockFrame

\* Queue is empty: done when no worker is left, else sleep(100 ms) and loop
LkDNone ==
    /\ lk.pc[0] = "none"
    /\ lk' = [lk EXCEPT !.pc[0] =
                 IF \A w \in 1..lk.spawned : lk.pc[w] = "done" THEN "done"
                 ELSE "lock_queue"]
    /\ LockFrame

LkDispatcher ==
    \/ LkDLockQueue
    \/ LkDPop
    \/ LkDLockVisited
    \/ \E seen \in BOOLEAN : LkDCheck(seen)
    \/ LkDSpawn
    \/ LkDNone

\* let mut visited_urls = visited.lock().unwrap();
LkWLockVisited(w) == lk.pc[w] = "lock_visited" /\ Lock(w, "visited", "mark")

LkWMark_KeepsLock(w) ==
    /\ lk.pc[w] = "mark"
    /\ lk' = [lk EXCEPT !.pc[w] = "fetch"]
    /\ LockFrame

\* visited_urls.insert(url.clone()), the guard dropped at the end of the block
LkWMark(w) ==
    /\ lk.pc[w] = "mark"
    /\ lk' = [lk EXCEPT !.owner["visited"] = Free, !.pc[w] = "fetch"]
    /\ LockFrame

\* fetch_url(..).await returns: Ok below the maximum depth (extract), Ok at the
\* maximum depth, or Err
LkWFetch(w, ok, extract) ==
    /\ lk.pc[w] = "fetch"
    /\ lk' = [lk EXCEPT !.pc[w] = IF ~ok THEN "done"
                                  ELSE IF extract THEN "lock_links" ELSE "send"]
    /\ LockFrame

\* let mut link_set = links.lock().unwrap();
LkWLockLinks(w) == lk.pc[w] = "lock_links" /\ Lock(w, "links", "lock_queue")

\* let mut queue = queue.lock().unwrap();
LkWLockQueue(w) == lk.pc[w] = "lock_queue" /\ Lock(w, "queue", "lock_visited2")

\* let visited_urls = visited.lock().unwrap();
LkWLockVisited2(w) == lk.pc[w] = "lock_visited2" /\ Lock(w, "visited", "enqueue")

\* the loop over new_links (k links pushed), the three guards dropped at the
\* end of the block
LkWEnqueue(w, k) ==
    /\ lk.pc[w] = "enqueue"
    /\ lk.made + k <= MaxLockItems
    /\ lk' = [lk EXCEPT !.owner = [l \in LockNames |-> Free], !.items = @ + k,
                        !.made = @ + k, !.pc[w] = "send"]
    /\ LockFrame

\* page_tx.send(page); sleep(delay).await
LkWSend(w) ==
    /\ lk.pc[w] = "send"
    /\ lk' = [lk EXCEPT !.pc[w] = "sleep"]
    /\ LockFrame

\* the sleep ends; drop(permit)
LkWSleepEnd(w) ==
    /\ lk.pc[w] = "sleep"
    /\ lk' = [lk EXCEPT !.pc[w] = "done"]
    /\ LockFrame

\* The steps of a worker in which it takes a mutex.
LkWorkerLock(w) ==
    \/ LkWLockVisited(w)
    \/ LkWLockLinks(w)
    \/ LkWLockQueue(w)
    \/ LkWLockVisited2(w)

LkWorker(w) ==
    \/ LkWorkerLock(w)
    \/ LkWMark(w)
    \/ \E ok \in BOOLEAN, extract \in BOOLEAN : LkWFetch(w, ok, extract)
    \/ \E k \in 0..MaxLockItems : LkWEnqueue(w, k)
    \/ LkWSend(w)
    \/ LkWSleepEnd(w)

\* crawl() has spawned the dispatcher task; the seed is in the queue.
InitLocks ==
    /\ ProgramIdle
    /\ FetchIdle
    /\ PipeIdle
    /\ MediaIdle
    /\ LinkIdle
    /\ DocIdle
    /\ PoolIdle
    /\ SimpleIdle
    /\ StoreIdle
    /\ lk = [owner |-> [l \in LockNames |-> Free],
             pc |-> [t \in LockTasks |-> IF t = 0 THEN "lock_queue" ELSE "unspawned"],
             items |-> 1, made |-> 1, spawned |-> 0]

NextLocks ==
    \/ LkDispatcher
    \/ \E w \in 1..MaxLockWorkers : LkWorker(w)

\* Every task runs on when it can (tokio's worker threads); a thread that
\* waits for a mutex gets it when the mutex is free again and again: the other
\* tasks hold it for a few instructions only.
FairLocks ==
    /\ InitLocks
    /\ [][NextLocks]_vars
    /\ SF_vars(LkDispatcher)
    /\ \A w \in 1..MaxLockWorkers : SF_vars(LkWorker(w))

\* ------------------------------- the loops of simple_html_to_markdown

\* The body content as a sequence of tokens: "<a " opens an anchor, "href=\""
\* starts the href attribute, "\"" is a double quote, "id=x " another
\* attribute, "u" the characters of a URL, "t" text.
AnchorShapes ==
    { << "<a ", "href=\"", "u", "\"", ">", "t", "</a>" >>,
      << "<a ", "id=x ", "href=\"", "u", "\"", ">", "t", "</a>" >>,
      << "<a ", "href=\"", "u", "\"", "id=x ", ">", "t", "</a>" >>,
      << "<a ", "id=x ", ">", "t", "</a>" >>,
      << "<a ", "href=\"", "u", "\"", ">", "t" >>,
      << "<a ", "href=\"", "u", "\"" >>,
      << "<a ", "href=\"", "u", ">", "t", "</a>" >>,
      << "t" >> }

\* The tokens that start with '<' and the tokens that end with '>'.
StartsTag(tok) == tok \in { "<a ", "</a>" }

EndsTag(tok) == tok \in { ">", "</a>" }

\* result[from..].find('<') and result[from..].find('>'), 0 for None
FindLt(str, from) ==
    LET hits == { i \in from..Len(str) : StartsTag(str[i]) }
    IN  IF hits = {} THEN 0 ELSE CHOOSE i \in hits : \A j \in hits : i <= j

FindTagEnd(str, from) ==
    LET hits == { i \in from..Len(str) : EndsTag(str[i]) }
    IN  IF hits = {} THEN 0 ELSE CHOOSE i \in hits : \A j \in hits : i <= j

\* str.replacen(pat, to, 1): the first match only, str itself when there is none
ReplaceFirst(str, pat, to) ==
    LET hits == { i \in 1..(Len(str) - Len(pat) + 1) :
                      SubSeq(str, i, i + Len(pat) - 1) = pat }
    IN  IF hits = {} THEN str
        ELSE LET i == CHOOSE k \in hits : \A j \in hits : k <= j
             IN  SubSeq(str, 1, i - 1) \o to \o SubSeq(str, i + Len(pat), Len(str))

\* One iteration of `while let Some(link_start) = result.find("<a ")` with
\* link_start found: the new text, and whether the iteration ends in break.
AnchorIteration(result, linkStart) ==
    LET hrefStart == FindChar(result, linkStart, "href=\"")
        hrefEnd == FindChar(result, hrefStart + 1, "\"")
        url == SubSeq(result, hrefStart + 1, hrefEnd - 1)
        tagEnd == FindTagEnd(result, linkStart)
        closingTag == FindChar(result, tagEnd + 1, "</a>")
        text == SubSeq(result, tagEnd + 1, closingTag - 1)
        link == << "<a ", "href=\"" >> \o url \o << "\"", ">" >> \o text \o << "</a>" >>
        mdLink == << "[" >> \o text \o << "](" >> \o url \o << ")" >>
    IN  IF hrefStart = 0
        THEN [result |-> ReplaceFirst(result, << "<a " >>, << >>), break |-> FALSE]
        ELSE IF hrefEnd = 0
        THEN [result |-> ReplaceFirst(result, SubSeq(result, linkStart, hrefStart), << >>),
              break |-> FALSE]
        ELSE IF tagEnd = 0
        THEN [result |-> SubSeq(result, 1, linkStart - 1), break |-> TRUE]
        ELSE IF closingTag # 0
        THEN [result |-> ReplaceFirst(result, link, mdLink), break |-> FALSE]
        ELSE [result |-> ReplaceFirst(result, SubSeq(result, linkStart, tagEnd), << >>),
              break |-> FALSE]

\* One iteration of `while let Some(tag_start) = result.find('<')` with
\* tag_start found.
TagIteration(result, tagStart) ==
    LET tagEnd == FindTagEnd(result, tagStart)
    IN  IF tagEnd # 0
        THEN [result |-> ReplaceFirst(result, SubSeq(result, tagStart, tagEnd), << >>),
              break |-> FALSE]
        ELSE [result |-> result, break |-> TRUE]

SimpleFrame ==
    UNCHANGED << crawlVars, histVars, stageVars, runVars, fetchVars, pipeVars, mediaVars,
                 linkVars, docVars, mp, lk, ps >>

\* The loop that rewrites anchors: the test of the loop condition and, when it
\* holds, the iteration that follows.
AnchorLoop ==
    /\ sm.pc = "anchors"
    /\ sm.iter < MaxLoopIters
    /\ LET linkStart == FindChar(sm.result, 1, "<a ")
           it == AnchorIteration(sm.result, linkStart)
       IN  IF linkStart = 0
           THEN sm' = [sm EXCEPT !.pc = "tags", !.iter = 0]
           ELSE sm' = [sm EXCEPT !.result = it.result, !.iter = @ + 1,
                                 !.pc = IF it.break THEN "tags" ELSE "anchors"]
    /\ SimpleFrame

\* The loop that removes the remaining tags.
TagLoop ==
    /\ sm.pc = "tags"
    /\ sm.iter < MaxLoopIters
    /\ LET tagStart == FindLt(sm.result, 1)
           it == TagIteration(sm.result, tagStart)
       IN  IF tagStart = 0
           THEN sm' = [sm EXCEPT !.pc = "done", !.iter = 0]
           ELSE sm' = [sm EXCEPT !.result = it.result, !.iter = @ + 1,
                                 !.pc = IF it.break THEN "done" ELSE "tags"]
    /\ SimpleFrame

\* simple_html_to_markdown called with a body of up to MaxAnchors pieces, after
\* the replacements of headers, paragraphs and lists.
InitSimple ==
    /\ ProgramIdle
    /\ FetchIdle
    /\ PipeIdle
    /\ MediaIdle
    /\ LinkIdle
    /\ DocIdle
    /\ PoolIdle
    /\ LocksIdle
    /\ StoreIdle
    /\ \E n \in 0..MaxAnchors :
          \E pieces \in [1..n -> AnchorShapes] :
              LET body == Concat(pieces)
              IN  sm = [html |-> body, result |-> body, pc |-> "anchors", iter |-> 0]

NextSimple == AnchorLoop \/ TagLoop

SpecSimple == InitSimple /\ [][NextSimple]_vars

\* ------------------------------------------ the file names of the page store

\* The URLs of one site that a crawl can deliver: they differ in scheme, port
\* (0 for the default port), path and query string. Strings are sequences of
\* one-character strings.
PathChars == { "/", "a", "_" }

Paths == UNION { { << "/" >> \o p : p \in [1..n -> PathChars] } : n \in 0..(MaxPathLen - 1) }

PageUrl(scheme, port, path, query) ==
    [scheme |-> scheme, host |-> << "h" >>, port |-> port, path |-> path, query |-> query]

\* path.trim_matches('/')
RECURSIVE TrimSlashStart(_)
TrimSlashStart(s) == IF s # << >> /\ Head(s) = "/" THEN TrimSlashStart(Tail(s)) ELSE s

RECURSIVE TrimSlashEnd(_)
TrimSlashEnd(s) ==
    IF s # << >> /\ s[Len(s)] = "/" THEN TrimSlashEnd(SubSeq(s, 1, Len(s) - 1)) ELSE s

TrimMatches(s) == TrimSlashEnd(TrimSlashStart(s))

\* if filename.len() > 100 { filename.chars().take(100) }
FilenameLimit == 100

InvalidChars == { "/", "\\", ":", "*", "?", "\"", "<", ">", "|", " " }

\* url_to_filename
UrlToFilename(url) ==
    LET filename == url.host \o << "_" >> \o TrimMatches(url.path)
        replaced == [i \in DOMAIN filename |->
                        IF filename[i] \in InvalidChars THEN "_" ELSE filename[i]]
    IN  IF Len(replaced) > FilenameLimit THEN SubSeq(replaced, 1, FilenameLimit) ELSE replaced

StoreFrame ==
    UNCHANGED << crawlVars, histVars, stageVars, runVars, fetchVars, pipeVars, mediaVars,
                 linkVars, docVars, mp, lk, sm >>

\* One turn of the page store's loop: a page the spider delivered is written
\* to html_dir/<url_to_filename>.html; File::create truncates a file that is
\* already there. The spider delivers a URL at most once.
StorePage(url) ==
    /\ url \notin ps.delivered
    /\ Cardinality(ps.delivered) < MaxStored
    /\ LET name == UrlToFilename(url)
       IN  ps' = [delivered |-> ps.delivered \cup { url },
                  files |-> [f \in DOMAIN ps.files \cup { name } |->
                                IF f = name THEN url ELSE ps.files[f]]]
    /\ StoreFrame

InitStore ==
    /\ ProgramIdle
    /\ FetchIdle
    /\ PipeIdle
    /\ MediaIdle
    /\ LinkIdle
    /\ DocIdle
    /\ PoolIdle
    /\ LocksIdle
    /\ SimpleIdle
    /\ StoreIdle

NextStore ==
    \E scheme \in { "http", "https" }, port \in { 0, 8080 }, path \in Paths,
       query \in { << >>, << "x" >> } :
        StorePage(PageUrl(scheme, port, path, query))

SpecStore == InitStore /\ [][NextStore]_vars

\* ------------------------------------------------------ crawl engine claims

\* C2: within one crawl run no URL is passed to fetch_url more than once,
\* whatever the interleaving of the dispatcher and the workers.
C2_NoUrlFetchedTwice ==
    \A u \in Urls : fetchCount[u] <= 1

\* A link that was found again after it was queued or visited, fetched once,
\* while two workers run at the same time.
C2_Witness ==
    /\ \E u \in reSeen : fetchCount[u] = 1
    /\ Cardinality(InFlight) >= 2

\* C3 (as stated): the number of fetches in flight never exceeds the configured
\* max_concurrent_requests.
C3_InFlightAtMostConfigured ==
    Cardinality(InFlight) <= cfgMaxConcurrent

\* C3 (amended): the number of fetches in flight never exceeds
\* max(max_concurrent_requests, 1), and every worker holds exactly one slot,
\* acquired before it was spawned: free slots plus workers in flight make up
\* the semaphore.
C3_InFlightBounded ==
    LET size == IF cfgMaxConcurrent >= 1 THEN cfgMaxConcurrent ELSE 1
    IN  /\ Cardinality(InFlight) <= size
        /\ permits >= 0
        /\ permits + Cardinality(InFlight) = size

\* Every slot of a semaphore of three is taken.
C3_Witness ==
    /\ cfgMaxConcurrent = MaxConcurrent
    /\ Cardinality(InFlight) = cfgMaxConcurrent
    /\ permits = 0

\* C4: completion is signalled only when the frontier is empty and no fetch
\* is in flight, for every max_concurrent_requests >= 1.
C4_DoneOnlyWhenExhausted ==
    (cfgMaxConcurrent >= 1 /\ doneSignalled) => (queue = << >> /\ InFlight = {})

\* The frontier is empty, the dispatcher holds no item and no fetch is in flight.
Exhausted ==
    /\ queue = << >>
    /\ dItem = NoItem
    /\ InFlight = {}

\* C5: once the frontier is empty and no fetch is in flight, crawl eventually
\* signals completion and returns, for every max_concurrent_requests >= 1.
C5_ExhaustionLeadsToReturn ==
    (cfgMaxConcurrent >= 1 /\ Exhausted) ~> (doneSignalled /\ crawlPc = "returned")

\* C6: the seed is fetched at depth 0, a link is enqueued at the depth of its
\* page plus one and only from a page below the maximum depth, so no frontier
\* item and no fetch is deeper than the maximum; with a maximum of 0 only the
\* seed is fetched and nothing is enqueued.
C6_DepthBounded ==
    /\ \A i \in DOMAIN queue : queue[i].depth \in 0..maxDepth
    /\ \A f \in fetched : f[2] \in 0..maxDepth /\ (f[1] = Seed => f[2] = 0)
    /\ \A e \in enqLog : e[3] < maxDepth /\ e[2] = e[3] + 1
    /\ maxDepth = 0 => (enqLog = {} /\ \A f \in fetched : f[1] = Seed)

\* A page at the maximum depth (two links away from the seed) was fetched.
C6_Witness ==
    /\ maxDepth = MaxDepth
    /\ \E f \in fetched : f[2] = maxDepth /\ f[1] # Seed
    /\ crawlPc = "returned"

\* C7: every URL that entered the frontier after the seed, every discovered
\* link and every fetched URL has the seed's host; a link to another host is
\* dropped and never fetched.
C7_SameHostOnly ==
    /\ \A i \in DOMAIN queue : Host(queue[i].url) = Host(Seed)
    /\ \A u \in linkSet : Host(u) = Host(Seed)
    /\ \A f \in fetched : Host(f[1]) = Host(Seed)
    /\ \A u \in dropped : fetchCount[u] = 0 /\ u \notin linkSet

\* A link to another host was found on a fetched page and the crawl finished.
C7_Witness ==
    /\ \E u \in dropped : Host(u) # Host(Seed)
    /\ Cardinality(fetched) >= 2
    /\ crawlPc = "returned"

\* --------------------------------------------------------- crawl stage claims

\* The spider has finished, every page it sent was forwarded and the
\* page-store task has drained its channel.
StageDrained ==
    /\ pePc \in { "forward", "await_dl" }
    /\ crawlPc = "returned"
    /\ InFlight = {}
    /\ bcast = << >>
    /\ dlChan = << >>

\* C1: the crawl stage of an attempt terminates: once the spider has finished
\* and the page-store task has drained its channel, process_entry returns (so
\* that the attempt cycle can reach Succeeded or Failed and run_entry return).
C1_CrawlStageReturns ==
    StageDrained ~> (pePc \in { "ok", "err" })

\* ------------------------------------------------------- orchestrator claims

\* C8: the persisted version of an entry counts its successful runs: after N
\* successful completions of run_entry, with any number of failed attempts in
\* between, it equals the initial version + N.
C8_VersionCountsSuccesses ==
    \A n \in Names : registry[n].version = NewEntry.version + successes[n]

AllFailed(atts) == \A i \in DOMAIN atts : atts[i] # "ok"

\* What the retries-exhausted error of an invocation has to carry.
ExhaustedReturnIsExact ==
    ret.kind = "exhausted" =>
        /\ Len(attempts) = cfgRetry
        /\ AllFailed(attempts)
        /\ ret.retries = cfgRetry
        /\ ret.msg = IF cfgRetry = 0 THEN "Unknown error" ELSE attempts[Len(attempts)]
        /\ mem[runName].status = "Failed"

\* The invocation's entry becomes Failed only in the step that follows the
\* last of retry_count failed attempts, and that step persists it and returns
\* the retries-exhausted error.
FailedOnlyAfterAllAttempts ==
    (runPc # "idle" /\ mem[runName].status # "Failed" /\ mem'[runName].status = "Failed")
        => /\ Len(attempts) = cfgRetry
           /\ AllFailed(attempts)
           /\ registry'[runName].status = "Failed"
           /\ ret'.kind = "exhausted"

\* An invocation that ends after retry_count failed attempts ends Failed.
AllAttemptsFailedEndsFailed ==
    (runPc # "idle" /\ runPc' = "idle" /\ Len(attempts') = cfgRetry /\ AllFailed(attempts'))
        => /\ mem'[runName].status = "Failed"
           /\ registry'[runName].status = "Failed"
           /\ ret'.kind = "exhausted"

C10_DisabledUntilStartUrl ==
    [][\A n \in Names :
          (registry[n].status = "Disabled" /\ registry'[n].status # "Disabled")
              => StartUrl(n)]_vars

\* ------------------------------------------------------------ retry claims

\* The attempt cycles this invocation has started.
AttemptsStarted ==
    Len(attempts)
      + (IF runPc \in { "crawling", "convert", "combine", "succeeded", "failed" }
         THEN 1 ELSE 0)

\* The attempt counter is the number of failed attempts when the loop
\* condition is tested, and an attempt starts only below retry_count.
CounterCountsFailures ==
    /\ AttemptsStarted <= cfgRetry
    /\ runPc \in { "crawl", "exhausted" } => retryCount = Len(attempts)
    /\ runPc = "crawl" => retryCount < cfgRetry

\* C11: one invocation of run_entry executes at most retry_count attempt
\* cycles: the attempt counter grows by one with every failed attempt, never
\* shrinks, and no attempt starts once it has reached retry_count.
C11_AtMostRetryCountAttempts ==
    /\ []CounterCountsFailures
    /\ [][runPc # "idle" => retryCount' >= retryCount]_vars
    /\ [][(runPc = "sleep" /\ runPc' # "sleep") => retryCount' = retryCount + 1]_vars

\* Two attempts were allowed, both failed, and the loop is left.
C11_Witness ==
    /\ cfgRetry = 2
    /\ runPc = "exhausted"
    /\ Len(attempts) = 2
    /\ retryCount = 2

\* C12: the delay slept after the failed attempt with 0-based index i is
\* retry_delay[i] when i < length(retry_delay), and 60 seconds otherwise.
C12_BackoffDelayByIndex ==
    /\ Len(sleeps) = Cardinality({ i \in DOMAIN attempts : attempts[i] # "ok" })
    /\ \A k \in DOMAIN sleeps :
          sleeps[k] = IF k - 1 < Len(cfgDelay) THEN cfgDelay[k] ELSE 60

\* A configured delay was slept after the first failure, the default delay
\* after the second.
C12_Witness ==
    /\ cfgDelay = << 10 >>
    /\ sleeps = << 10, 60 >>
    /\ Len(attempts) = 2

\* C13: a backoff sleep happens only if attempts remain: while run_entry
\* sleeps, fewer than retry_count attempts have been made, so that the sleep
\* is followed by a further attempt and the last failure by Failed at once.
C13_SleepOnlyIfAttemptsRemain ==
    runPc = "sleep" => Len(attempts) < cfgRetry

\* C14: every failed attempt of an invocation leaves its own error file: the
\* file a failure writes is not the file of the previous failure of the same
\* invocation (none is overwritten), and last_fail becomes the time of the
\* failure.
C14_OneErrorFilePerFailure ==
    [][(runPc = "failed" /\ runPc' = "sleep")
          => /\ Len(attempts) >= 1 => now \notin mem[runName].last_fail
             /\ now \in errorFiles'
             /\ registry'[runName].last_fail = { now }]_vars

\* C17: an entry URL that is no usable base URL is fatal: run_entry makes a
\* single attempt, does not sleep and starts no further attempt.
C17_BadUrlNotRetried ==
    (runPc # "idle" /\ mem[runName].url # "valid")
        => (sleeps = << >> /\ AttemptsStarted <= 1)

\* ---------------------------------------------------- fetch failure claims

\* The fetch of u returned an error: its worker is past fetch_url and sent no
\* page.
FetchFailed(u) ==
    /\ \E w \in DOMAIN workers :
          workers[w].url = u /\ workers[w].pc \in { "release", "done" }
    /\ \A i \in DOMAIN bcast : bcast[i] # u

\* A failed fetch is not repeated, and the step in which it fails enqueues
\* nothing.
FailedFetchIsSkipped ==
    /\ [](\A u \in Urls : FetchFailed(u) => fetchCount[u] = 1)
    /\ [][(\E u \in Urls : FetchFailed(u)' /\ ~FetchFailed(u))
             => (queue' = queue /\ linkSet' = linkSet /\ bcast' = bcast)]_vars

\* C15: a page fetch failure does not abort the crawl: the failing URL is
\* skipped and not fetched again, its links are not enqueued, every other
\* frontier item is still fetched and the crawl reaches completion.
C15_FetchFailureDoesNotAbort ==
    /\ FailedFetchIsSkipped
    /\ (\E u \in Urls : FetchFailed(u))
          ~> (crawlPc = "returned" /\ queue = << >> /\ InFlight = {})

\* C16: a response with a non-2xx status is a fetch failure: fetch_url returns
\* an error that holds the status code, no Page is sent, the page store writes
\* nothing and no link of the body is enqueued.
C16_Non2xxIsFailure ==
    (/\ fxPc = "done"
     /\ fxReq.parses
     /\ fxReq.transport = "response"
     /\ fxReq.status \notin 200..299)
        => /\ fxRes.kind = "Err"
           /\ fxRes.status = fxReq.status
           /\ fxPage = "none"
           /\ fxSaved = "none"
           /\ fxLinks = << >>

\* C18: every page a worker sent reaches the page store exactly once: no more
\* pages are stored than were sent, and when the spider is gone, the
\* forwarding loop has ended and the store has drained its channel, every
\* page sent is stored, whatever the number of pages.
C18_EveryPageStoredOnce ==
    /\ ppStored <= ppSent
    /\ (ppClosed /\ ppPc = "await_dl" /\ ppStored = ppForwarded) => ppStored = ppSent

\* C19 as stated: a second run of download_images for an unchanged page and
\* media directory issues no network request.
C19_SecondRunIssuesNoRequest ==
    mdRuns >= 2 => mdRequests = << >>

\* C19: a second run of download_images for an unchanged page and media
\* directory requests only media URLs whose file is not on disk, that is,
\* URLs the server does not answer with a readable image; every URL that was
\* stored is skipped, so that a page whose images were all stored causes no
\* request.
C19_SecondRunSkipsStored ==
    mdRuns >= 2 =>
        /\ \A i \in DOMAIN mdRequests :
              /\ MediaFile(mdRequests[i]) \notin mdDisk
              /\ mdServer[mdRequests[i]] # "image"
        /\ (\A i \in DOMAIN mdPage : mdServer[mdPage[i]] = "image") => mdRequests = << >>

\* Two different images were stored by the first run and the second run
\* requested nothing.
C19_Witness ==
    /\ mdRuns = 2
    /\ Len(mdPage) = 2
    /\ Cardinality(mdDisk) = 2
    /\ mdRequests = << >>

\* The hyperlinks [text](url) of a line whose text is k characters of text
\* and whose target is the URL u: the positions of their opening brackets.
LinksAt(str, k, u) ==
    { i \in 1..Len(str) :
        /\ i + k + 4 <= Len(str)
        /\ str[i] = "["
        /\ \A j \in 1..k : str[i + j] = "t"
        /\ str[i + k + 1] = "]"
        /\ str[i + k + 2] = "("
        /\ str[i + k + 3] = u
        /\ str[i + k + 4] = ")" }

\* No bracketed text of the line is linked to the URL u.
NoLinkTo(str, u) ==
    \A i \in 1..Len(str) :
        ~(/\ i + 3 <= Len(str)
          /\ str[i] = "]" /\ str[i + 1] = "(" /\ str[i + 2] = u /\ str[i + 3] = ")"
          /\ \E j \in 1..(i - 1) : str[j] = "[")

\* C20: in the processed line no link to a host that does not contain the
\* base domain is left as a hyperlink, and every link to a host that contains
\* it is still there with its text, for any number of links on the line,
\* adjacent or nested.
C20_OnlyBaseDomainLinksRemain ==
    plPc = "done" =>
        /\ \A u \in UrlTokens :
              ~HostContains(TokenHost(u), plBase) => NoLinkTo(plOut, u)
        /\ \A u \in UrlTokens :
              HostContains(TokenHost(u), plBase) =>
                  \A k \in 1..Len(plLine) :
                      Cardinality(LinksAt(plOut, k, u)) >= Cardinality(LinksAt(plLine, k, u))

\* --------------------------------------------------------- Processor claims

\* The sections of the files in ascending order of their names
RECURSIVE SortedListing(_, _)
SortedListing(k, stems) ==
    IF k > Len(FileStems) THEN << >>
    ELSE (IF FileStems[k] \in stems THEN << FileStems[k] >> ELSE << >>)
         \o SortedListing(k + 1, stems)

\* C21: for the same per-page Markdown files and the same base URLs, every run
\* of the combining step that succeeds writes the same document, and it is the
\* one that has the sections in ascending filename order, whatever order the
\* directory listing returned the files in.
C21_CombinedInFilenameOrder ==
    \A i \in DOMAIN cb.outs :
        cb.outs[i][1] = "Ok" =>
            cb.outs[i] = << "Ok" >> \o CombineFiles(SortedListing(1, DOMAIN cb.files),
                                                    cb.files, BaseDomain)

\* No two lines of str in a row are blank
NoBlankRun(str) ==
    LET ls == Lines(str)
    IN  \A k \in 1..(Len(ls) - 1) : ~(IsBlank(ls[k]) /\ IsBlank(ls[k + 1]))

\* C22: the document returned by final_cleanup has no run of two or more
\* consecutive blank lines.
C22_NoBlankRunInOutput ==
    fc.pc = "done" => NoBlankRun(fc.out)

\* C23: the document returned by final_cleanup holds no "<img", "<video" or
\* "<audio" any more, whether the tag was self-closing, without a closing tag
\* or without its closing bracket.
C23_NoMediaTagInOutput ==
    fc.pc = "done" =>
        \A k \in DOMAIN fc.out : fc.out[k] \notin { "<img", "<video", "<audio" }

\* ---------------------------------------------------------- Converter claims

\* C24: a page whose file could be read and written gets a Markdown file even
\* when the configured conversion method failed for it: once
\* convert_directory has returned, every such page has one.
C24_FailedStrategyFallsBack ==
    cv.pc = "ok" =>
        \A stem \in DOMAIN cv.html :
            (\A f \in cv.failed :
                f.stem = stem =>
                    f.msg \notin { "Failed to read HTML file", "Failed to write Markdown file" })
            => \E f \in cv.md : f.stem = stem

\* ------------------------------------------------------- link extraction claims

\* The references of all href attributes of a line, in order, that are to be
\* kept, resolved against the page's URL
RECURSIVE AllLineLinks(_, _)
AllLineLinks(line, base) ==
    IF line = << >> THEN << >>
    ELSE (IF /\ Head(line).quote \in Quotes
             /\ ~SkippedScheme(Head(line).href)
             /\ JoinOk(Head(line).href)
          THEN << Join(base, Head(line).href) >> ELSE << >>)
         \o AllLineLinks(Tail(line), base)

RECURSIVE AllLinks(_, _)
AllLinks(html, base) ==
    IF html = << >> THEN << >>
    ELSE AllLineLinks(Head(html), base) \o AllLinks(Tail(html), base)

\* C25: extract_links returns one resolved URL for every href attribute of the
\* page, double-quoted, single-quoted or unquoted, however many stand on one
\* line, leaving out only fragment, javascript: and mailto: references and
\* those that do not resolve.
C25_EveryHrefExtracted ==
    el.pc = "done" => el.out = AllLinks(el.html, el.base)

\* ------------------------------------------------------- entry crawl claims

\* C26: the crawl of an entry fetches no page at a depth greater than the
\* entry's crawl_depth, whatever the configured default depth is.
C26_DepthFromEntry ==
    \A f \in fetched : f[2] <= mem[runName].crawl_depth

\* C27: when respect_robots_txt is true, no URL that robots.txt disallows is
\* fetched.
C27_RobotsRespected ==
    robots.respect => \A f \in fetched : f[1] \notin robots.disallow

\* ------------------------------------------------------ disabled entry claims

\* run_entry is called for an entry that is Disabled in the registry it loads
RunsDisabledEntry ==
    /\ runPc = "idle"
    /\ runsStarted' = runsStarted + 1
    /\ registry[runName'].status = "Disabled"

\* C28: run_entry on an entry whose status is Disabled returns an error
\* without entering the crawl stage (no attempt, no fetch) and leaves the
\* registry as it is.
C28_DisabledEntryNotCrawled ==
    [][RunsDisabledEntry =>
          /\ ret'.kind = "disabled"
          /\ runPc' = "idle"
          /\ attempts' = << >>
          /\ fetched' = fetched
          /\ registry' = registry]_vars

C28_Witness ==
    /\ runsStarted > 0
    /\ runPc = "idle"
    /\ ret.kind = "disabled"
    /\ registry[runName].status = "Disabled"

\* C29: the persisted version and last_download of an entry change only in
\* the step that completes a successful attempt cycle; a failed attempt,
\* whatever stage failed, leaves them as they were.
C29_FailedAttemptKeepsVersion ==
    [][\A n \in Names :
          (\/ registry'[n].version # registry[n].version
           \/ registry'[n].last_download # registry[n].last_download)
          => successes'[n] = successes[n] + 1]_vars

\* ------------------------------------------------------ seed failure claims

\* The fetch of the seed returned an error: no page was obtained and no link
\* was found.
SeedFetchFailed ==
    /\ \E w \in DOMAIN workers :
          workers[w].url = Seed /\ workers[w].pc \in { "release", "done" }
    /\ fetchCount[Seed] = 1
    /\ bcast = << >>
    /\ dlChan = << >>
    /\ crawledUrls = {}

\* C30: a crawl stage in which the fetch of the seed fails, so that no page is
\* obtained, ends with an error (the attempt is a failed one, which run_entry
\* retries).
C30_SeedFailureFailsAttempt ==
    (SeedFetchFailed /\ pePc \in { "forward", "await_dl" }) ~> (pePc = "err")

\* ------------------------------------------------------------ IO error claims

\* The page store received the page of the seed (the seed was fetched, its
\* links were enqueued, its page has left both channels) and could not create
\* or write its HTML file: the URL is not among crawled_urls.
SeedPageNotWritten ==
    /\ \E e \in enqLog : e[3] = 0
    /\ \E w \in DOMAIN workers :
          workers[w].url = Seed /\ workers[w].pc \in { "release", "done" }
    /\ \A i \in DOMAIN bcast : bcast[i] # Seed
    /\ \A i \in DOMAIN dlChan : dlChan[i] # Seed
    /\ Seed \notin crawledUrls

\* C31: an attempt in which a file it needs cannot be created or written (here
\* the HTML file of a page) ends with an error, so that run_entry goes on to the
\* next attempt.
C31_IoErrorFailsAttempt ==
    (SeedPageNotWritten /\ pePc \in { "forward", "await_dl" }) ~> (pePc = "err")

\* ---------------------------------------------------- enqueue order claims

\* The worker that fetches (or fetched) u at depth d has its fetch behind it.
PastFetch(d) ==
    \E w \in DOMAIN workers :
        workers[w].depth = d /\ workers[w].pc \in { "send", "release", "done" }

\* The item was found in the body of a page one level up whose fetch_url
\* returned Ok.
FoundOnFetchedPage(item) ==
    \E e \in enqLog :
        /\ e[1] = item.url
        /\ e[2] = item.depth
        /\ e[3] + 1 = item.depth
        /\ PastFetch(e[3])

\* C32: every item of the frontier other than the seed was extracted from the
\* body of a page whose fetch had already returned Ok, and a page is on the page
\* channel only when its worker is past the step that enqueues its links.
C32_LinksAfterOwnFetch ==
    /\ \A i \in DOMAIN queue :
          \/ queue[i] = [url |-> Seed, depth |-> 0]
          \/ FoundOnFetchedPage(queue[i])
    /\ dItem # NoItem =>
          (dItem = [url |-> Seed, depth |-> 0] \/ FoundOnFetchedPage(dItem))
    /\ \A w \in DOMAIN workers :
          workers[w].pc \in { "mark", "fetch", "send" } =>
              \A i \in DOMAIN bcast : bcast[i] # workers[w].url

\* A link of the seed's page waits in the frontier while the seed's page is
\* on the page channel.
C32_Witness ==
    /\ \E i \in DOMAIN queue : queue[i].depth = 1
    /\ \E i \in DOMAIN bcast : bcast[i] = Seed

\* ------------------------------------------------------ slot release claims

\* C33 as stated: whenever no worker is running (every worker that acquired a
\* slot has ended), the number of available fetch slots equals the configured
\* max_concurrent_requests.
C33_IdleSlotsEqualConfigured ==
    (workers # << >> /\ InFlight = {}) => permits = cfgMaxConcurrent

\* Every slot is either available or held by exactly one running worker.
SlotsConserved ==
    permits + Cardinality(InFlight) = SemaphorePermits(cfgMaxConcurrent)

\* C33: every slot a worker acquires is released in the end, whether fetch_url
\* returns Ok or Err, so whenever no worker is running the number of available
\* slots is max(max_concurrent_requests, 1).
C33_SlotAlwaysReleased ==
    /\ [](SlotsConserved /\ (InFlight = {} => permits = SemaphorePermits(cfgMaxConcurrent)))
    /\ (InFlight # {}) ~> (InFlight = {})

\* A worker whose fetch failed and a worker whose fetch succeeded have both
\* ended, and every slot is available again.
C33_Witness ==
    /\ Len(workers) >= 2
    /\ InFlight = {}
    /\ fetchCount[Seed] = 1
    /\ bcast = << Seed >>
    /\ permits = SemaphorePermits(cfgMaxConcurrent)

\* ------------------------------------------------------ media bound claims

\* C34: media downloads have their own bound: the media tasks that run never
\* exceed max_concurrent_requests and hold permits of the media semaphore only,
\* the permits of the page semaphore are held by fetch workers only, and with
\* every media permit taken the page store can still store a page that waits
\* and the dispatcher can still start a fetch when a page slot is free.
C34_MediaHasOwnBound ==
    /\ Cardinality(MediaRunning) <= mp.cfg
    /\ mp.mediaPermits + Cardinality(MediaRunning) = MediaPermits(mp.cfg)
    /\ mp.pagePermits + mp.fetching = SemaphorePermits(mp.cfg)
    /\ (mp.mediaPermits = 0 /\ mp.chan > 0) => ENABLED PoolStore
    /\ (mp.mediaPermits = 0 /\ mp.left > 0 /\ mp.fetching < SemaphorePermits(mp.cfg))
           => ENABLED PoolFetchBegin

\* Every media permit is taken, a further media task waits, a page waits for
\* the page store and a page is still to be fetched.
C34_Witness ==
    /\ mp.cfg >= 1
    /\ mp.mediaPermits = 0
    /\ \E t \in DOMAIN mp.tasks : mp.tasks[t] = "wait"
    /\ mp.chan > 0
    /\ mp.left > 0

\* ------------------------------------------------------ breadth-first claims

\* The pages of the site within n links of the seed.
RECURSIVE Within(_)
Within(n) ==
    IF n = 0 THEN { Seed }
    ELSE LET near == Within(n - 1)
         IN  near \cup UNION { { SiteLinks(u)[i] : i \in DOMAIN SiteLinks(u) } : u \in near }

\* The smallest number of links that lead from the seed to u.
Distance(u) ==
    CHOOSE n \in 0..Cardinality(SiteUrls) :
        /\ u \in Within(n)
        /\ n > 0 => u \notin Within(n - 1)

\* Every page was fetched and nothing waits.
CrawlQuiet == queue = << >> /\ dItem = NoItem /\ InFlight = {}

\* C35: frontier items are dequeued for fetching in non-decreasing depth order
\* (workers are spawned in dequeue order), and when the crawl has fetched the
\* site the depth recorded for a URL is its shortest link distance from the seed.
C35_BreadthFirst ==
    /\ \A i, j \in DOMAIN workers : i < j => workers[i].depth <= workers[j].depth
    /\ CrawlQuiet => \A w \in DOMAIN workers :
                         workers[w].depth = Distance(workers[w].url)

\* ------------------------------------------------------- write-back claims

\* A step in which run_entry is done with an attempt or with its last retry,
\* and goes to sleep or returns.
AttemptOutcomeStep ==
    /\ runPc \in { "succeeded", "failed", "exhausted" }
    /\ runPc' \in { "sleep", "idle" }

C37_OtherEntriesUntouched ==
    [][runPc' # runPc =>
          \A b \in (DOMAIN registry \cup DOMAIN registry') \ { runName } :
              /\ b \in DOMAIN registry
              /\ b \in DOMAIN registry'
              /\ registry'[b] = registry[b]]_vars

\* ------------------------------------------------------------- lock claims

\* links before queue before visited
LockRank(l) == CASE l = "links" -> 1 [] l = "queue" -> 2 [] l = "visited" -> 3

\* The mutexes task t holds.
Holds(t) == { l \in LockNames : lk.owner[l] = t }

\* The mutex task t is asking for, if any.
Wants(t) ==
    CASE lk.pc[t] \in { "lock_visited", "lock_visited2" } -> { "visited" }
      [] lk.pc[t] = "lock_queue" -> { "queue" }
      [] lk.pc[t] = "lock_links" -> { "links" }
      [] OTHER -> {}

\* The mutexes of the sets task t is about to read or change.
Touches(t) ==
    CASE lk.pc[t] = "pop" -> { "queue" }
      [] lk.pc[t] \in { "check", "mark" } -> { "visited" }
      [] lk.pc[t] = "enqueue" -> LockNames
      [] OTHER -> {}

\* Task t is at an .await (semaphore, sleep, fetch_url), not yet spawned, or ended.
Suspended(t) ==
    lk.pc[t] \in { "acquire", "none", "fetch", "sleep", "unspawned", "done" }

LockDiscipline ==
    \A t \in LockTasks :
        /\ Touches(t) \subseteq Holds(t)
        /\ \A l \in Wants(t), h \in Holds(t) : LockRank(h) < LockRank(l)
        /\ Suspended(t) => Holds(t) = {}

\* C38: the shared sets are touched only under their mutex, nested mutexes are
\* taken in the order links, queue, visited, no mutex is held across a
\* suspension point, and every lock request is eventually granted.
C38_NoLockDeadlock ==
    /\ []LockDiscipline
    /\ \A t \in LockTasks : \A l \in LockNames :
          (l \in Wants(t)) ~> (lk.owner[l] = t)

\* A worker holds links and queue and waits for visited, which another worker
\* holds, while the dispatcher waits for the queue.
C38_Witness ==
    \E w1, w2 \in 1..MaxLockWorkers :
        /\ lk.pc[w1] = "lock_visited2"
        /\ lk.pc[w2] = "mark"
        /\ lk.pc[0] = "lock_queue"

\* ------------------------------------------------------ simple converter claims

\* C39: every iteration of the anchor loop and of the tag loop of
\* simple_html_to_markdown strictly shrinks the text or leaves the loop, so
\* the function terminates for every shape of anchor.
C39_EveryIterationShrinks ==
    [][(sm'.iter = sm.iter + 1) =>
           (Len(sm'.result) < Len(sm.result) \/ sm'.pc # sm.pc)]_vars

\* ------------------------------------------------------------ page store claims

\* C40: no fetched page overwrites another in the page store: distinct URLs
\* of one crawl are written to distinct HTML files, so there are as many
\* files as pages delivered.
C40_OneFilePerPage == Cardinality(DOMAIN ps.files) = Cardinality(ps.delivered)

====
